---- MODULE Spec2Model ----
(***************************************************************************)
(* Parking occupancy engine of the parking-monitoring backend:             *)
(*   - OccupancyTracker          (app/tasks/video_tasks.py)                *)
(*   - detection / slot matching (app/api/v1/endpoints/detections.py)      *)
(*   - camera and video rollups  (app/api/v1/endpoints/videos.py)          *)
(*   - process_video_task        (app/tasks/video_tasks.py)                *)
(***************************************************************************)
EXTENDS Integers, Sequences, FiniteSets, TLC

VARIABLES
    confirm_frames,  \* OccupancyTracker.confirm_frames
    state,           \* OccupancyTracker.state: slot_id -> list of bool
    samples,         \* history: the samples passed to update, per slot
    returned,        \* history: the values update returned, per slot
    last,            \* history: the last update call [slot, sample, ret]
    parking_slots,   \* ParkingSlot rows of the camera, in query order
    parking_lots,    \* ParkingLot rows of the camera, in query order
    video,           \* the Video row
    detections,      \* Detection rows of the video, in storage order
    resp,            \* the response of the last endpoint call
    task,            \* process_video_task: its arguments, locals and position
    session,         \* rows added to the task's session and not yet committed
    video_file,      \* the video file: frame size and the detector's output per frame
    events           \* OccupancyEvent rows

trackerVars == <<confirm_frames, state, samples, returned, last>>
apiVars == <<parking_slots, parking_lots, video, detections, resp>>
taskVars == <<task, session, video_file, events>>

vars == <<confirm_frames, state, samples, returned, last,
          parking_slots, parking_lots, video, detections, resp,
          task, session, video_file, events>>

----------------------------------------------------------------------------
(* Bounds *)

MaxConfirmFrames == 3
MaxUpdates == 7
MaxDetections == 2
MaxFrames == 3
MaxRollupFrames == 10
MaxBatchFrames == 205

Slots == {"s1", "s2"}

----------------------------------------------------------------------------
(* Generic helpers *)

Min(a, b) == IF a < b THEN a ELSE b

\* The last k elements of a sequence.
LastK(seq, k) == SubSeq(seq, Len(seq) - k + 1, Len(seq))

RECURSIVE Count(_, _)
Count(seq, v) ==
    IF seq = <<>> THEN 0
    ELSE (IF Head(seq) = v THEN 1 ELSE 0) + Count(Tail(seq), v)

RECURSIVE SumLen(_, _)
SumLen(f, S) ==
    IF S = {} THEN 0
    ELSE LET s == CHOOSE t \in S : TRUE
         IN Len(f[s]) + SumLen(f, S \ {s})

----------------------------------------------------------------------------
(* OccupancyTracker *)

\* all(window) / any(window) of Python.
all(win) == \A i \in 1..Len(win) : win[i]
any(win) == \E i \in 1..Len(win) : win[i]

\* Mutant of PushSample: the window is never trimmed.
PushSampleNoPop(win, is_occupied, W) == Append(win, is_occupied)

\* Mutant of PushSample: pop() instead of pop(0), the newest sample is dropped.
PushSamplePopLast(win, is_occupied, W) ==
    LET a == Append(win, is_occupied)
    IN IF Len(a) > W THEN SubSeq(a, 1, Len(a) - 1) ELSE a

\* self.state[slot_id].append(is_occupied); pop(0) once longer than confirm_frames.
PushSample(win, is_occupied, W) ==
    LET a == Append(win, is_occupied)
    IN IF Len(a) > W THEN Tail(a) ELSE a

\* Mutant of ConfirmedStatus: any() where the code has all().
ConfirmedStatusAny(win, W) ==
    IF Len(win) = W
    THEN IF any(win) THEN "occupied"
         ELSE IF ~any(win) THEN "free" ELSE "None"
    ELSE "None"

\* The value update returns for the window it has just stored.
ConfirmedStatus(win, W) ==
    IF Len(win) = W
    THEN IF all(win) THEN "occupied"
         ELSE IF ~any(win) THEN "free" ELSE "None"
    ELSE "None"

\* Mutant of StateAfterUpdate: the sample is pushed to every known window.
StateAfterUpdateAll(st, slot_id, is_occupied, W) ==
    LET st1 == IF slot_id \in DOMAIN st THEN st ELSE st @@ (slot_id :> <<>>)
    IN [s \in DOMAIN st1 |-> PushSample(st1[s], is_occupied, W)]

\* self.state after update(slot_id, is_occupied).
StateAfterUpdate(st, slot_id, is_occupied, W) ==
    LET st1 == IF slot_id \in DOMAIN st THEN st ELSE st @@ (slot_id :> <<>>)
    IN [st1 EXCEPT ![slot_id] = PushSample(st1[slot_id], is_occupied, W)]

NoCall == [slot |-> "none", sample |-> FALSE, ret |-> "None"]

\* The values of the variables a specification does not use.
IdleTracker ==
    /\ confirm_frames = 1
    /\ state = [s \in {} |-> <<>>]
    /\ samples = [s \in Slots |-> <<>>]
    /\ returned = [s \in Slots |-> <<>>]
    /\ last = NoCall

IdleTask ==
    /\ task = [pc |-> "none"]
    /\ session = <<>>
    /\ video_file = [frames |-> <<>>]
    /\ events = <<>>

\* OccupancyTracker(confirm_frames): an empty state dict.
InitTracker ==
    /\ confirm_frames \in 1..MaxConfirmFrames
    /\ state = [s \in {} |-> <<>>]
    /\ samples = [s \in Slots |-> <<>>]
    /\ returned = [s \in Slots |-> <<>>]
    /\ last = NoCall
    /\ parking_slots = <<>>
    /\ parking_lots = <<>>
    /\ video = [processed |-> FALSE]
    /\ detections = <<>>
    /\ resp = [op |-> "none"]
    /\ IdleTask

\* OccupancyTracker.update(slot_id, is_occupied)
update(slot_id, is_occupied) ==
    /\ SumLen(samples, Slots) < MaxUpdates
    /\ state' = StateAfterUpdate(state, slot_id, is_occupied, confirm_frames)
    /\ LET ret == ConfirmedStatus(state'[slot_id], confirm_frames)
       IN /\ returned' = [returned EXCEPT ![slot_id] = Append(@, ret)]
          /\ last' = [slot |-> slot_id, sample |-> is_occupied, ret |-> ret]
    /\ samples' = [samples EXCEPT ![slot_id] = Append(@, is_occupied)]
    /\ UNCHANGED confirm_frames
    /\ UNCHANGED apiVars
    /\ UNCHANGED taskVars

NextTracker == \E slot_id \in Slots, is_occupied \in BOOLEAN : update(slot_id, is_occupied)

SpecTracker == InitTracker /\ [][NextTracker]_vars

----------------------------------------------------------------------------
(* Claims about the OccupancyTracker *)

\* After the first i samples of seq, the window (the last W of them) is full
\* and all true / all false / mixed.
FullTrueAt(seq, i, W) == i >= W /\ \A j \in (i - W + 1)..i : seq[j]
FullFalseAt(seq, i, W) == i >= W /\ \A j \in (i - W + 1)..i : ~seq[j]
MixedAt(seq, i, W) == i >= W /\ \E j, k \in (i - W + 1)..i : seq[j] # seq[k]

Flicker == <<TRUE, TRUE, TRUE, FALSE, TRUE, TRUE, TRUE>>
LoneMiss == <<TRUE, FALSE, TRUE, TRUE, TRUE>>

\* C1: update returns "occupied" only on the call where the slot's window first
\* becomes fully true and "free" only on the call where it first becomes fully
\* false; every further call made while the window stays fully true (fully
\* false) returns None.
C1_EmitsOnlyOnFirstFullWindow ==
    \A s \in Slots : \A i \in 1..Len(returned[s]) :
        /\ returned[s][i] = "occupied" =>
              /\ FullTrueAt(samples[s], i, confirm_frames)
              /\ ~FullTrueAt(samples[s], i - 1, confirm_frames)
        /\ returned[s][i] = "free" =>
              /\ FullFalseAt(samples[s], i, confirm_frames)
              /\ ~FullFalseAt(samples[s], i - 1, confirm_frames)

\* C2: with confirm_frames = 3 the samples [T,T,T,F,T,T,T] of one slot emit
\* "occupied" exactly once in total and never "free".
C2_FlickerEmitsOccupiedOnce ==
    \A s \in Slots :
        (confirm_frames = 3 /\ samples[s] = Flicker) =>
            /\ Count(returned[s], "occupied") = 1
            /\ Count(returned[s], "free") = 0

\* C3: update returns None on every call after which the slot has fewer than
\* confirm_frames samples or its last confirm_frames samples are mixed; with
\* confirm_frames = 3 the samples [T,F,T,T,T] emit exactly one "occupied", on
\* the 5th sample.
C3_NoneWhileFillingOrMixed ==
    \A s \in Slots :
        /\ \A i \in 1..Len(returned[s]) :
              (i < confirm_frames \/ MixedAt(samples[s], i, confirm_frames))
                  => returned[s][i] = "None"
        /\ (confirm_frames = 3 /\ samples[s] = LoneMiss) =>
              returned[s] = <<"None", "None", "None", "None", "occupied">>

C3_Witness ==
    \E s \in Slots :
        /\ confirm_frames = 3
        /\ samples[s] = LoneMiss
        /\ Len(returned[s]) = 5

\* C4: for every slot the stored window has length min(n, confirm_frames), n
\* the number of updates of that slot, and holds exactly the last
\* min(n, confirm_frames) samples of the slot in arrival order.
C4_WindowIsLastSamples ==
    \A s \in Slots :
        IF samples[s] = <<>>
        THEN s \notin DOMAIN state
        ELSE /\ s \in DOMAIN state
             /\ Len(state[s]) = Min(Len(samples[s]), confirm_frames)
             /\ Len(state[s]) <= confirm_frames
             /\ state[s] = LastK(samples[s], Min(Len(samples[s]), confirm_frames))

C4_Witness ==
    \E s \in Slots :
        /\ Len(samples[s]) > confirm_frames
        /\ samples[s][1] # samples[s][Len(samples[s])]
        /\ s \in DOMAIN state
        /\ Len(state[s]) = confirm_frames

\* A second, independent tracker that is fed the samples of one slot only.
RECURSIVE ReplayState(_, _)
ReplayState(seq, W) ==
    IF seq = <<>> THEN [s \in {} |-> <<>>]
    ELSE StateAfterUpdate(ReplayState(SubSeq(seq, 1, Len(seq) - 1), W),
                          "solo", seq[Len(seq)], W)

ReplayReturned(seq, W) ==
    [i \in 1..Len(seq) |->
        ConfirmedStatus(ReplayState(SubSeq(seq, 1, i), W)["solo"], W)]

\* C5: update(s, x) leaves the window of every other slot unchanged, and the
\* statuses returned for a slot and its final window are those of a tracker
\* that is fed this slot's samples alone, whatever the interleaving with the
\* updates of other slots.
C5_SlotsAreIndependent ==
    /\ [](\A s \in Slots :
            /\ returned[s] = ReplayReturned(samples[s], confirm_frames)
            /\ samples[s] # <<>> =>
                  /\ s \in DOMAIN state
                  /\ state[s] = ReplayState(samples[s], confirm_frames)["solo"])
    /\ [][\A t \in DOMAIN state :
            t # last'.slot => (t \in DOMAIN state' /\ state'[t] = state[t])]_vars

C5_Witness ==
    /\ last.slot = "s2"
    /\ Len(samples["s2"]) >= 2
    /\ Count(returned["s1"], "occupied") >= 1
    /\ Count(returned["s2"], "free") >= 1
    /\ samples["s1"][Len(samples["s1"])] = FALSE

----------------------------------------------------------------------------
(* Geometry.  Coordinates are grid units; a polygon is the set of unit cells *)
(* of the frame it covers (cell <<i, j>> is the square [i, i+1] x [j, j+1]), *)
(* so area, intersection and union are exact for the rectilinear rings that *)
(* lie inside the frame.  Of a ring that reaches beyond the frame only the  *)
(* part inside the frame is kept: this is exact for its intersection with a *)
(* polygon that lies inside the frame.                                      *)

XS == 0..3
YS == 0..1
GridCells == XS \X YS

Max(a, b) == IF a > b THEN a ELSE b

\* Exact fractions <<numerator, denominator>>, denominator > 0.
RatGeq(a, b) == a[1] * b[2] >= b[1] * a[2]
RatGt(a, b) == a[1] * b[2] > b[1] * a[2]
RatEq(a, b) == a[1] * b[2] = b[1] * a[2]
Zero == <<0, 1>>

\* round(x, 2) of Python for x >= 0: the nearest multiple of 1/100, a tie going
\* to the even one; a fraction with denominator 0 (a failed division) is kept.
Round2(r) ==
    IF r[2] = 0 THEN r
    ELSE LET q == (100 * r[1]) \div r[2]
             m == (100 * r[1]) % r[2]
         IN IF 2 * m < r[2] THEN <<q, 100>>
            ELSE IF 2 * m > r[2] THEN <<q + 1, 100>>
            ELSE IF q % 2 = 0 THEN <<q, 100>> ELSE <<q + 1, 100>>

\* round(x, 4) of Python for x >= 0.
Round4(r) ==
    IF r[2] = 0 THEN r
    ELSE LET q == (10000 * r[1]) \div r[2]
             m == (10000 * r[1]) % r[2]
         IN IF 2 * m < r[2] THEN <<q, 10000>>
            ELSE IF 2 * m > r[2] THEN <<q + 1, 10000>>
            ELSE IF q % 2 = 0 THEN <<q, 10000>> ELSE <<q + 1, 10000>>

\* The closed ring of an axis-aligned rectangle, and its GeoJSON polygon.
Ring(x1, y1, x2, y2) ==
    << <<x1, y1>>, <<x2, y1>>, <<x2, y2>>, <<x1, y2>>, <<x1, y1>> >>
GeoJson(ring) == [type |-> "Polygon", coordinates |-> <<ring>>]

\* shapely Polygon(points): the cells inside the ring (even-odd rule: a cell is
\* inside when an odd number of vertical edges lie to the right of its centre).
Polygon(points) ==
    {c \in GridCells :
        Cardinality({k \in 1..(Len(points) - 1) :
            /\ points[k][1] = points[k + 1][1]
            /\ Min(points[k][2], points[k + 1][2]) <= c[2]
            /\ c[2] < Max(points[k][2], points[k + 1][2])
            /\ points[k][1] > c[1]}) % 2 = 1}

\* shapely box(minx, miny, maxx, maxy)
box(x1, y1, x2, y2) ==
    {c \in GridCells :
        /\ Min(x1, x2) <= c[1] /\ c[1] < Max(x1, x2)
        /\ Min(y1, y2) <= c[2] /\ c[2] < Max(y1, y2)}

polygon_from_geojson(geojson_data) == Polygon(geojson_data.coordinates[1])

\* The inputs for which polygon_from_geojson raises instead of returning:
\* coordinates without a ring (IndexError of [0]) and a ring of one or two
\* points (ValueError of shapely's Polygon, which needs three points; a ring
\* with no point at all is the empty polygon).
polygon_from_geojson_raises(geojson_data) ==
    \/ Len(geojson_data.coordinates) = 0
    \/ Len(geojson_data.coordinates[1]) \in {1, 2}

bbox_to_polygon(bbox_norm) ==
    box(bbox_norm.x1, bbox_norm.y1, bbox_norm.x2, bbox_norm.y2)

\* Mutant of calculate_iou: the intersection over the area of the first polygon.
calculate_iou_coverage(poly1, poly2) ==
    LET intersection == Cardinality(poly1 \cap poly2)
        area == Cardinality(poly1)
    IN IF area > 0 THEN <<intersection, area>> ELSE Zero

calculate_iou(poly1, poly2) ==
    LET intersection == Cardinality(poly1 \cap poly2)
        uni == Cardinality(poly1 \cup poly2)
    IN IF uni > 0 THEN <<intersection, uni>> ELSE Zero

\* Mutant of check_containment: IoU where the code has the coverage of the slot.
check_containment_iou(slot_poly, lot_poly, threshold) ==
    RatGeq(calculate_iou(slot_poly, lot_poly), threshold)

check_containment(slot_poly, lot_poly, threshold) ==
    LET intersection == Cardinality(slot_poly \cap lot_poly)
        slot_area == Cardinality(slot_poly)
    IN IF slot_area = 0 THEN FALSE
       ELSE RatGeq(<<intersection, slot_area>>, threshold)

----------------------------------------------------------------------------
(* Stored data *)

BBox(x1, y1, x2, y2) == [x1 |-> x1, y1 |-> y1, x2 |-> x2, y2 |-> y2]

Slot(id, x1, y1, x2, y2) ==
    [id |-> id, name |-> id, polygon |-> GeoJson(Ring(x1, y1, x2, y2))]

\* A Video row as created by the upload, and one a successful run has updated.
UploadedVideo ==
    [processed |-> FALSE, processing_started_at |-> FALSE,
     processing_finished_at |-> FALSE, processing_error |-> "None"]
ProcessedVideo ==
    [processed |-> TRUE, processing_started_at |-> TRUE,
     processing_finished_at |-> TRUE, processing_error |-> "None"]

SlotA == Slot("A", 0, 0, 2, 2)
SlotB == Slot("B", 2, 0, 4, 2)
SlotC == Slot("C", 1, 0, 3, 2)
\* A 1 x 1 slot and a slot of zero area.
SlotU == Slot("U", 0, 0, 1, 1)
SlotZ == Slot("Z", 2, 0, 2, 2)

Lot(id, x1, y1, x2, y2) ==
    [id |-> id, name |-> id, polygon |-> GeoJson(Ring(x1, y1, x2, y2))]

LotAll == Lot("LAll", 0, 0, 4, 2)
LotEast == Lot("LEast", 2, 0, 4, 2)
LotEdge == Lot("LEdge", 3, 0, 4, 1)
\* A 10 x 10 lot.
Lot10 == Lot("L10", 0, 0, 10, 10)

\* The slot sets a camera is configured with, in the order the query returns them.
SlotLayouts == {<<>>, <<SlotA>>, <<SlotA, SlotB>>, <<SlotB, SlotA>>, <<SlotA, SlotC>>}

\* bbox_normalized of the detections the detector may have produced.
DetBoxes ==
    {BBox(0, 0, 2, 2), BBox(1, 0, 3, 2), BBox(0, 0, 1, 2), BBox(3, 0, 4, 1),
     BBox(2, 2, 2, 2)}

\* Frame numbers of analysed frames (multiples of the frame stride).
FrameNumbers == {0, 30}

\* Values of the iou_threshold query parameter, a float in [0, 1].
Thresholds == {<<0, 1>>, <<3, 10>>, <<1, 2>>, <<1, 1>>}

----------------------------------------------------------------------------
(* Queries *)

\* Mutant of SortSet: descending order.
RECURSIVE SortSetDescending(_)
SortSetDescending(S) ==
    IF S = {} THEN <<>>
    ELSE LET m == CHOOSE x \in S : \A y \in S : x >= y
         IN <<m>> \o SortSetDescending(S \ {m})

\* sorted(...): ascending order.
RECURSIVE SortSet(_)
SortSet(S) ==
    IF S = {} THEN <<>>
    ELSE LET m == CHOOSE x \in S : \A y \in S : x <= y
         IN <<m>> \o SortSet(S \ {m})

RECURSIVE Concat(_)
Concat(seqs) == IF seqs = <<>> THEN <<>> ELSE Head(seqs) \o Concat(Tail(seqs))

\* select(Detection).where(frame_number == f)
RowsOfFrame(rows, f) == SelectSeq(rows, LAMBDA d : d.frame_number = f)

DistinctFrames(rows) == {rows[i].frame_number : i \in DOMAIN rows}

\* select(Detection).order_by(Detection.frame_number)
OrderByFrame(rows) ==
    LET fs == SortSet(DistinctFrames(rows))
    IN Concat([i \in 1..Len(fs) |-> RowsOfFrame(rows, fs[i])])

\* func.max(Detection.frame_number); None (written -1) when there is no row
MaxFrameNumber(rows) ==
    IF rows = <<>> THEN -1
    ELSE CHOOSE f \in DistinctFrames(rows) : \A g \in DistinctFrames(rows) : g <= f

\* {slot.id: (polygon_from_geojson(slot.polygon), slot.name)}, in insertion order
RECURSIVE SlotPolygons(_)
SlotPolygons(slots) ==
    IF slots = <<>> THEN <<>>
    ELSE LET slot == slots[Len(slots)]
         IN Append(SlotPolygons(SubSeq(slots, 1, Len(slots) - 1)),
                   [id |-> slot.id,
                    polygon |-> polygon_from_geojson(slot.polygon),
                    name |-> slot.name])

----------------------------------------------------------------------------
(* Slot matcher: the best-slot loop of get_detections_by_frames and           *)
(* get_frame_detections                                                     *)

NoIou == <<>>
NoMatch == [slot_id |-> "None", slot_name |-> "None", iou |-> Zero]

\* Mutant of MatchStep: the comparison with best_iou is dropped.
MatchStepNoBest(best, sp, iou, iou_threshold) ==
    IF RatGeq(iou, iou_threshold)
    THEN [slot_id |-> sp.id, slot_name |-> sp.name, iou |-> iou]
    ELSE best

\* Mutant of MatchStep: iou > iou_threshold where the code has >=.
MatchStepStrictThreshold(best, sp, iou, iou_threshold) ==
    IF RatGt(iou, best.iou) /\ RatGt(iou, iou_threshold)
    THEN [slot_id |-> sp.id, slot_name |-> sp.name, iou |-> iou]
    ELSE best

\* if iou > best_iou and iou >= iou_threshold: best_* = ...
MatchStep(best, sp, iou, iou_threshold) ==
    IF RatGt(iou, best.iou) /\ RatGeq(iou, iou_threshold)
    THEN [slot_id |-> sp.id, slot_name |-> sp.name, iou |-> iou]
    ELSE best

\* The loop over slot_polygons.items(), after its first k entries.
RECURSIVE BestSlot(_, _, _, _)
BestSlot(detection_polygon, slot_polygons, iou_threshold, k) ==
    IF k = 0 THEN NoMatch
    ELSE MatchStep(BestSlot(detection_polygon, slot_polygons, iou_threshold, k - 1),
                   slot_polygons[k],
                   calculate_iou(detection_polygon, slot_polygons[k].polygon),
                   iou_threshold)

\* The entry built for one detection.
DetectionWithSlot(detection, slot_polygons, iou_threshold) ==
    LET best == BestSlot(bbox_to_polygon(detection.bbox_normalized),
                         slot_polygons, iou_threshold, Len(slot_polygons))
    IN [id |-> detection.id,
        frame_number |-> detection.frame_number,
        bbox_normalized |-> detection.bbox_normalized,
        parking_slot_id |-> best.slot_id,
        parking_slot_name |-> best.slot_name,
        iou |-> IF best.slot_id # "None" THEN best.iou ELSE NoIou,
        is_in_slot |-> best.slot_id # "None"]

\* for slot_id, ... in slot_polygons.items(): if iou >= iou_threshold: add(slot_id)
SlotsHit(detection, slot_polygons, iou_threshold) ==
    LET detection_polygon == bbox_to_polygon(detection.bbox_normalized)
    IN {slot_polygons[k].id : k \in
           {j \in 1..Len(slot_polygons) :
               RatGeq(calculate_iou(detection_polygon, slot_polygons[j].polygon),
                      iou_threshold)}}

----------------------------------------------------------------------------
(* Endpoints of detections.py *)

\* The division without its guard: a zero denominator is a ZeroDivisionError.
RateUnguarded(occupied_count, total_slots) == <<occupied_count, total_slots>>

\* occupied_count / total_slots if total_slots > 0 else 0
Rate(occupied_count, total_slots) ==
    IF total_slots > 0 THEN <<occupied_count, total_slots>> ELSE Zero

\* The grouping loop of get_detections_by_frames after the first k rows:
\* frames_data, a dict frame_number -> entry.
RECURSIVE FramesData(_, _, _, _)
FramesData(rows, slot_polygons, iou_threshold, k) ==
    IF k = 0 THEN [f \in {} |-> <<>>]
    ELSE LET detection == rows[k]
             f == detection.frame_number
             fd0 == FramesData(rows, slot_polygons, iou_threshold, k - 1)
             fd1 == IF f \in DOMAIN fd0 THEN fd0
                    ELSE fd0 @@ (f :> [frame_number |-> f,
                                       detections |-> <<>>,
                                       total_vehicles |-> 0])
         IN [fd1 EXCEPT
                ![f].detections =
                    Append(@, DetectionWithSlot(detection, slot_polygons, iou_threshold)),
                ![f].total_vehicles = @ + 1]

by_frames_response(iou_threshold, limit, offset) ==
    LET all_frames == SortSet(DistinctFrames(detections))
        frame_numbers == SubSeq(all_frames, offset + 1,
                                Min(offset + limit, Len(all_frames)))
        in_frames == {frame_numbers[i] : i \in DOMAIN frame_numbers}
        rows == OrderByFrame(SelectSeq(detections,
                                       LAMBDA d : d.frame_number \in in_frames))
        frames_data == FramesData(rows, SlotPolygons(parking_slots),
                                  iou_threshold, Len(rows))
        order == SortSet(DOMAIN frames_data)
    IN [op |-> "by_frames",
        iou_threshold |-> iou_threshold,
        limit |-> limit,
        offset |-> offset,
        frames |-> IF frame_numbers = <<>> THEN <<>>
                   ELSE [i \in 1..Len(order) |-> frames_data[order[i]]]]

\* An exception that escapes a handler: the framework answers 500.
InternalServerError == [op |-> "error", status_code |-> 500]

\* Mutant of FrameLoop: a detection that matches no slot is left out of the list.
RECURSIVE FrameLoopMatchedOnly(_, _, _, _)
FrameLoopMatchedOnly(rows, slot_polygons, iou_threshold, k) ==
    IF k = 0 THEN [detections_with_slots |-> <<>>, occupied_slot_ids |-> {}]
    ELSE LET acc == FrameLoopMatchedOnly(rows, slot_polygons, iou_threshold, k - 1)
             d == DetectionWithSlot(rows[k], slot_polygons, iou_threshold)
         IN IF d.parking_slot_id # "None"
            THEN [detections_with_slots |-> Append(acc.detections_with_slots, d),
                  occupied_slot_ids |-> acc.occupied_slot_ids \cup {d.parking_slot_id}]
            ELSE acc

\* The loop of get_frame_detections after the first k detections of the frame:
\* [detections_with_slots, occupied_slot_ids].
RECURSIVE FrameLoop(_, _, _, _)
FrameLoop(rows, slot_polygons, iou_threshold, k) ==
    IF k = 0 THEN [detections_with_slots |-> <<>>, occupied_slot_ids |-> {}]
    ELSE LET acc == FrameLoop(rows, slot_polygons, iou_threshold, k - 1)
             d == DetectionWithSlot(rows[k], slot_polygons, iou_threshold)
         IN [detections_with_slots |-> Append(acc.detections_with_slots, d),
             occupied_slot_ids |->
                 IF d.parking_slot_id # "None"
                 THEN acc.occupied_slot_ids \cup {d.parking_slot_id}
                 ELSE acc.occupied_slot_ids]

frame_response(frame_number, iou_threshold) ==
    LET rows == RowsOfFrame(detections, frame_number)
        acc == FrameLoop(rows, SlotPolygons(parking_slots), iou_threshold, Len(rows))
        occupied_count == Cardinality(acc.occupied_slot_ids)
    IN IF rows = <<>>
       THEN [op |-> "frame",
             iou_threshold |-> iou_threshold,
             frame_number |-> frame_number,
             total_vehicles |-> 0,
             detections |-> <<>>,
             occupancy |-> [occupied_slots |-> {}, total_detections |-> 0]]
       ELSE IF \E k \in DOMAIN parking_slots :
                   polygon_from_geojson_raises(parking_slots[k].polygon)
       THEN InternalServerError
       ELSE [op |-> "frame",
             iou_threshold |-> iou_threshold,
             frame_number |-> frame_number,
             total_vehicles |-> Len(rows),
             detections |-> acc.detections_with_slots,
             occupancy |->
                 [occupied_slots |-> acc.occupied_slot_ids,
                  occupied_count |-> occupied_count,
                  free_count |-> Len(parking_slots) - occupied_count,
                  occupancy_rate |-> IF parking_slots # <<>>
                                     THEN <<occupied_count, Len(parking_slots)>>
                                     ELSE Zero]]

\* Mutant of FrameOccupancy: a detection on no slot is counted as a slot None.
RECURSIVE FrameOccupancyWithNone(_, _, _, _)
FrameOccupancyWithNone(rows, slot_polygons, iou_threshold, k) ==
    IF k = 0 THEN [f \in {} |-> <<>>]
    ELSE LET detection == rows[k]
             f == detection.frame_number
             fo0 == FrameOccupancyWithNone(rows, slot_polygons, iou_threshold, k - 1)
             fo1 == IF f \in DOMAIN fo0 THEN fo0
                    ELSE fo0 @@ (f :> [frame_number |-> f,
                                       occupied_slots |-> {},
                                       detections |-> 0])
             hit == SlotsHit(detection, slot_polygons, iou_threshold)
         IN [fo1 EXCEPT
                ![f].occupied_slots = @ \cup (IF hit = {} THEN {"None"} ELSE hit),
                ![f].detections = @ + 1]

\* The per-frame loop of get_occupancy_stats, get_video_analytics after the
\* first k rows: a dict frame_number -> [occupied_slots, detections].
RECURSIVE FrameOccupancy(_, _, _, _)
FrameOccupancy(rows, slot_polygons, iou_threshold, k) ==
    IF k = 0 THEN [f \in {} |-> <<>>]
    ELSE LET detection == rows[k]
             f == detection.frame_number
             fo0 == FrameOccupancy(rows, slot_polygons, iou_threshold, k - 1)
             fo1 == IF f \in DOMAIN fo0 THEN fo0
                    ELSE fo0 @@ (f :> [frame_number |-> f,
                                       occupied_slots |-> {},
                                       detections |-> 0])
         IN [fo1 EXCEPT
                ![f].occupied_slots =
                    @ \cup SlotsHit(detection, slot_polygons, iou_threshold),
                ![f].detections = @ + 1]

RECURSIVE SumOccupied(_)
SumOccupied(timeline) ==
    IF timeline = <<>> THEN 0
    ELSE Head(timeline).occupied_slots + SumOccupied(Tail(timeline))

stats_response(iou_threshold) ==
    LET rows == OrderByFrame(detections)
        frame_occupancy == FrameOccupancy(rows, SlotPolygons(parking_slots),
                                          iou_threshold, Len(rows))
        total_slots == Len(parking_slots)
        order == SortSet(DOMAIN frame_occupancy)
        occupancy_timeline ==
            [i \in 1..Len(order) |->
                LET frame_data == frame_occupancy[order[i]]
                    occupied_count == Cardinality(frame_data.occupied_slots)
                IN [frame_number |-> frame_data.frame_number,
                    total_slots |-> total_slots,
                    occupied_slots |-> occupied_count,
                    free_slots |-> total_slots - occupied_count,
                    occupancy_rate |-> Rate(occupied_count, total_slots),
                    total_detections |-> frame_data.detections]]
    IN [op |-> "stats",
        iou_threshold |-> iou_threshold,
        total_slots |-> total_slots,
        frames_analyzed |-> Len(occupancy_timeline),
        average_occupancy_rate |->
            IF occupancy_timeline # <<>> /\ total_slots > 0
            THEN <<SumOccupied(occupancy_timeline),
                   total_slots * Len(occupancy_timeline)>>
            ELSE Zero,
        timeline |-> occupancy_timeline]

----------------------------------------------------------------------------
(* Endpoints of videos.py *)

\* check_containment(slot_poly, lot_poly, threshold=0.5)
ContainmentThreshold == <<1, 2>>

\* Status labels: a slot is busy above 0.7 and moderate above 0.3; a lot of
\* get_lots_parking_status is full from 0.95, busy from 0.7, moderate from 0.3.
BusyRate == <<7, 10>>
ModerateRate == <<3, 10>>
FullRate == <<95, 100>>

\* occupancy_timeline[-50:]
TimelineLimit == 50

\* {lot.id: (polygon_from_geojson(lot.polygon), lot.name)}, in insertion order
RECURSIVE LotPolygons(_)
LotPolygons(lots) ==
    IF lots = <<>> THEN <<>>
    ELSE LET lot == lots[Len(lots)]
         IN Append(LotPolygons(SubSeq(lots, 1, Len(lots) - 1)),
                   [id |-> lot.id,
                    polygon |-> polygon_from_geojson(lot.polygon),
                    name |-> lot.name])

\* Mutant of FirstContainingLot: no break, the last matching lot wins.
RECURSIVE LastContainingLot(_, _, _)
LastContainingLot(slot_poly, lot_polygons, k) ==
    IF k > Len(lot_polygons) THEN "None"
    ELSE LET later == LastContainingLot(slot_poly, lot_polygons, k + 1)
         IN IF later # "None" THEN later
            ELSE IF check_containment(slot_poly, lot_polygons[k].polygon,
                                      ContainmentThreshold)
            THEN lot_polygons[k].id
            ELSE "None"

\* for lot_id, ... in lot_polygons.items(): if check_containment(...): ...; break
\* from the k-th lot on; "None" when the loop ends without a match.
RECURSIVE FirstContainingLot(_, _, _)
FirstContainingLot(slot_poly, lot_polygons, k) ==
    IF k > Len(lot_polygons) THEN "None"
    ELSE IF check_containment(slot_poly, lot_polygons[k].polygon, ContainmentThreshold)
    THEN lot_polygons[k].id
    ELSE FirstContainingLot(slot_poly, lot_polygons, k + 1)

\* slot_to_lot_map, by the position of the slot; "None" for a slot without entry.
slot_to_lot_map(slots, lots) ==
    [k \in 1..Len(slots) |->
        FirstContainingLot(polygon_from_geojson(slots[k].polygon), LotPolygons(lots), 1)]

\* list.sort(key=lambda x: x["occupancy_rate"], reverse=True): stable.
RECURSIVE InsertByRate(_, _)
InsertByRate(sorted, e) ==
    IF sorted = <<>> THEN <<e>>
    ELSE IF RatGeq(Head(sorted).occupancy_rate, e.occupancy_rate)
    THEN <<Head(sorted)>> \o InsertByRate(Tail(sorted), e)
    ELSE <<e>> \o sorted

RECURSIVE SortByRate(_)
SortByRate(seq) ==
    IF seq = <<>> THEN <<>>
    ELSE InsertByRate(SortByRate(SubSeq(seq, 1, Len(seq) - 1)), seq[Len(seq)])

\* Mutant of slot_status: >= where the code has >.
slot_status_geq(occupancy_rate) ==
    IF RatGeq(occupancy_rate, BusyRate) THEN "busy"
    ELSE IF RatGeq(occupancy_rate, ModerateRate) THEN "moderate"
    ELSE "free"

\* "busy" if occupancy_rate > 0.7 else ("moderate" if occupancy_rate > 0.3 else "free")
slot_status(occupancy_rate) ==
    IF RatGt(occupancy_rate, BusyRate) THEN "busy"
    ELSE IF RatGt(occupancy_rate, ModerateRate) THEN "moderate"
    ELSE "free"

\* The status of a lot in lot_statistics of get_video_analytics.
lot_statistics_status(occupancy_rate) ==
    IF RatGt(occupancy_rate, BusyRate) THEN "busy"
    ELSE IF RatGt(occupancy_rate, ModerateRate) THEN "moderate"
    ELSE "free"

\* The status of a lot in get_lots_parking_status.
lot_status(occupancy_rate) ==
    IF RatGeq(occupancy_rate, FullRate) THEN "full"
    ELSE IF RatGeq(occupancy_rate, BusyRate) THEN "busy"
    ELSE IF RatGeq(occupancy_rate, ModerateRate) THEN "moderate"
    ELSE "free"

\* slot_occupancy[slot_id]: the frames of frame_data in which the slot is occupied.
slot_occupancy(frame_data, slot_id) ==
    Cardinality({f \in DOMAIN frame_data : slot_id \in frame_data[f].occupied_slots})

\* The sum of slot_occupancy over the slots at the positions in S.
RECURSIVE SumSlotOccupancy(_, _, _)
SumSlotOccupancy(slots, S, frame_data) ==
    IF S = {} THEN 0
    ELSE LET k == CHOOSE j \in S : TRUE
         IN slot_occupancy(frame_data, slots[k].id)
                + SumSlotOccupancy(slots, S \ {k}, frame_data)

RECURSIVE MaxOccupied(_)
MaxOccupied(timeline) ==
    IF timeline = <<>> THEN 0
    ELSE Max(Head(timeline).occupied_slots, MaxOccupied(Tail(timeline)))

\* Mutant of lot_occupancy: every slot of the camera is counted in every lot.
lot_occupancy_all_slots(lot_id, slots, map, frame_data) ==
    [occupied_frames |->
         SumSlotOccupancy(slots, DOMAIN slots, frame_data),
     total_slots |-> Len(slots)]

\* lot_occupancy[lot_id] after the loop over the slots.
lot_occupancy(lot_id, slots, map, frame_data) ==
    LET members == {k \in DOMAIN slots : map[k] = lot_id}
    IN [occupied_frames |->
            SumSlotOccupancy(slots, members, frame_data),
        total_slots |-> Cardinality(members)]

analytics_response(iou_threshold) ==
    LET total_detections == Len(detections)
        rows == OrderByFrame(detections)
        frame_data == FrameOccupancy(rows, SlotPolygons(parking_slots),
                                     iou_threshold, Len(rows))
        total_slots == Len(parking_slots)
        order == SortSet(DOMAIN frame_data)
        occupancy_timeline ==
            [i \in 1..Len(order) |->
                LET data == frame_data[order[i]]
                    occupied == Cardinality(data.occupied_slots)
                IN [frame_number |-> data.frame_number,
                    occupied_slots |-> occupied,
                    free_slots |-> total_slots - occupied,
                    occupancy_rate |-> Round2(Rate(occupied, total_slots)),
                    total_vehicles |-> data.detections]]
        total_frames == Cardinality(DistinctFrames(rows))
        slot_statistics ==
            [k \in 1..Len(parking_slots) |->
                LET occupied_frames == slot_occupancy(frame_data, parking_slots[k].id)
                    occupancy_rate == Rate(occupied_frames, total_frames)
                IN [slot_id |-> parking_slots[k].id,
                    occupied_frames |-> occupied_frames,
                    total_frames |-> total_frames,
                    occupancy_rate |-> Round2(occupancy_rate),
                    status |-> slot_status(occupancy_rate)]]
        map == slot_to_lot_map(parking_slots, parking_lots)
        lot_entries ==
            [k \in 1..Len(parking_lots) |->
                LET lot_data == lot_occupancy(parking_lots[k].id, parking_slots,
                                              map, frame_data)
                    occupancy_rate ==
                        Rate(lot_data.occupied_frames,
                             lot_data.total_slots * total_frames)
                IN [lot_id |-> parking_lots[k].id,
                    total_slots |-> lot_data.total_slots,
                    occupancy_rate |-> Round2(occupancy_rate),
                    status |-> lot_statistics_status(occupancy_rate)]]
        lot_statistics == SelectSeq(lot_entries, LAMBDA e : e.total_slots > 0)
    IN IF total_detections = 0
       THEN [op |-> "analytics",
             iou_threshold |-> iou_threshold,
             total_detections |-> 0,
             summary |-> [average_occupancy_rate |-> Zero,
                          peak_occupancy_rate |-> Zero,
                          total_parking_slots |-> 0],
             occupancy_timeline |-> <<>>,
             slot_statistics |-> <<>>,
             lot_statistics |-> <<>>]
       ELSE [op |-> "analytics",
             iou_threshold |-> iou_threshold,
             total_detections |-> total_detections,
             frames_analyzed |-> total_frames,
             total_parking_slots |-> total_slots,
             summary |->
                 [average_occupancy_rate |->
                      Round2(IF total_slots > 0
                             THEN Rate(SumOccupied(occupancy_timeline),
                                       total_slots * Len(occupancy_timeline))
                             ELSE Zero),
                  peak_occupancy_rate |->
                      Round2(Rate(MaxOccupied(occupancy_timeline), total_slots)),
                  total_parking_slots |-> total_slots],
             occupancy_timeline |->
                 IF Len(occupancy_timeline) > TimelineLimit
                 THEN LastK(occupancy_timeline, TimelineLimit)
                 ELSE occupancy_timeline,
             slot_statistics |-> SortByRate(slot_statistics),
             lot_statistics |-> SortByRate(lot_statistics)]

\* The occupancy loop of get_current_parking_status after the first k rows.
RECURSIVE OccupiedSlots(_, _, _, _)
OccupiedSlots(rows, slot_polygons, iou_threshold, k) ==
    IF k = 0 THEN {}
    ELSE OccupiedSlots(rows, slot_polygons, iou_threshold, k - 1)
            \cup SlotsHit(rows[k], slot_polygons, iou_threshold)

current_status_response(iou_threshold) ==
    LET latest_frame == MaxFrameNumber(detections)
        rows == RowsOfFrame(detections, latest_frame)
        occupied_slots == OccupiedSlots(rows, SlotPolygons(parking_slots),
                                        iou_threshold, Len(rows))
        total_slots == Len(parking_slots)
        occupied_count == Cardinality(occupied_slots)
    IN IF ~video.processed
       THEN [op |-> "current", iou_threshold |-> iou_threshold,
             status |-> "no_data", slots |-> <<>>,
             summary |-> [total_slots |-> 0, occupied |-> 0, free |-> 0,
                          occupancy_rate |-> Zero]]
       ELSE IF parking_slots = <<>>
       THEN [op |-> "current", iou_threshold |-> iou_threshold,
             status |-> "no_slots", slots |-> <<>>,
             summary |-> [total_slots |-> 0, occupied |-> 0, free |-> 0,
                          occupancy_rate |-> Zero]]
       ELSE IF latest_frame = -1
       THEN [op |-> "current", iou_threshold |-> iou_threshold,
             status |-> "no_detections",
             slots |-> [k \in 1..total_slots |->
                           [id |-> parking_slots[k].id, status |-> "unknown"]],
             summary |-> [total_slots |-> total_slots, occupied |-> 0,
                          free |-> total_slots, occupancy_rate |-> Zero]]
       ELSE [op |-> "current", iou_threshold |-> iou_threshold,
             status |-> "ok",
             frame_number |-> latest_frame,
             slots |-> [k \in 1..total_slots |->
                           [id |-> parking_slots[k].id,
                            status |-> IF parking_slots[k].id \in occupied_slots
                                       THEN "occupied" ELSE "free"]],
             summary |-> [total_slots |-> total_slots,
                          occupied |-> occupied_count,
                          free |-> total_slots - occupied_count,
                          occupancy_rate |->
                              Round2(Rate(occupied_count, total_slots))]]

\* lot_data[lot_id] of get_lots_parking_status after the loop over the slots.
lot_data_of(lot_id, slots, map, occupied_slots) ==
    LET members == {k \in DOMAIN slots : map[k] = lot_id}
    IN [capacity |-> Cardinality(members),
        occupied |-> Cardinality({k \in members : slots[k].id \in occupied_slots})]

RECURSIVE SumField(_, _)
SumField(seq, field) ==
    IF seq = <<>> THEN 0 ELSE Head(seq)[field] + SumField(Tail(seq), field)

lots_status_response(iou_threshold) ==
    LET latest_frame == MaxFrameNumber(detections)
        rows == RowsOfFrame(detections, latest_frame)
        map == slot_to_lot_map(parking_slots, parking_lots)
        occupied_slots == OccupiedSlots(rows, SlotPolygons(parking_slots),
                                        iou_threshold, Len(rows))
        lots_status ==
            [k \in 1..Len(parking_lots) |->
                LET data == lot_data_of(parking_lots[k].id, parking_slots,
                                        map, occupied_slots)
                    occupancy_rate == Rate(data.occupied, data.capacity)
                IN [id |-> parking_lots[k].id,
                    capacity |-> data.capacity,
                    occupied |-> data.occupied,
                    free |-> data.capacity - data.occupied,
                    occupancy_rate |-> Round2(occupancy_rate),
                    status |-> lot_status(occupancy_rate)]]
        total_capacity == SumField(lots_status, "capacity")
        total_occupied == SumField(lots_status, "occupied")
        empty_summary == [total_lots |-> 0, total_capacity |-> 0,
                          total_occupied |-> 0, avg_occupancy_rate |-> Zero]
    IN IF ~video.processed
       THEN [op |-> "lots", iou_threshold |-> iou_threshold,
             status |-> "no_data", lots |-> <<>>, summary |-> empty_summary]
       ELSE IF parking_lots = <<>>
       THEN [op |-> "lots", iou_threshold |-> iou_threshold,
             status |-> "no_lots", lots |-> <<>>, summary |-> empty_summary]
       ELSE IF latest_frame = -1
       THEN [op |-> "lots", iou_threshold |-> iou_threshold,
             status |-> "no_detections",
             lots |-> [k \in 1..Len(parking_lots) |->
                          [id |-> parking_lots[k].id, capacity |-> 0,
                           occupied |-> 0, occupancy_rate |-> Zero]],
             summary |-> [empty_summary EXCEPT !.total_lots = Len(parking_lots)]]
       ELSE [op |-> "lots", iou_threshold |-> iou_threshold,
             status |-> "ok",
             frame_number |-> latest_frame,
             lots |-> SortByRate(lots_status),
             summary |-> [total_lots |-> Len(parking_lots),
                          total_capacity |-> total_capacity,
                          total_occupied |-> total_occupied,
                          total_free |-> total_capacity - total_occupied,
                          avg_occupancy_rate |->
                              Round2(Rate(total_occupied, total_capacity))]]

\* slot_info["lot_matches"].sort(key=lambda x: x["iou"], reverse=True): stable.
RECURSIVE InsertByIou(_, _)
InsertByIou(sorted, e) ==
    IF sorted = <<>> THEN <<e>>
    ELSE IF RatGeq(Head(sorted).iou, e.iou)
    THEN <<Head(sorted)>> \o InsertByIou(Tail(sorted), e)
    ELSE <<e>> \o sorted

RECURSIVE SortByIou(_)
SortByIou(seq) ==
    IF seq = <<>> THEN <<>>
    ELSE InsertByIou(SortByIou(SubSeq(seq, 1, Len(seq) - 1)), seq[Len(seq)])

\* debug_slot_lot_mapping: IoU and coverage of every slot with every lot.  The
\* polygons are converted outside any try block.
debug_mapping_response ==
    LET lot_matches(slot_poly) ==
            [l \in 1..Len(parking_lots) |->
                LET lot_poly == polygon_from_geojson(parking_lots[l].polygon)
                    intersection == Cardinality(slot_poly \cap lot_poly)
                    coverage == IF Cardinality(slot_poly) > 0
                                THEN <<intersection, Cardinality(slot_poly)>>
                                ELSE Zero
                IN [lot_id |-> parking_lots[l].id,
                    iou |-> Round4(calculate_iou(slot_poly, lot_poly)),
                    coverage |-> Round4(coverage),
                    meets_threshold |-> RatGeq(coverage, ContainmentThreshold)]]
    IN IF parking_lots = <<>>
       THEN [op |-> "debug", error |-> "No parking lots found for this camera"]
       ELSE IF parking_slots = <<>>
       THEN [op |-> "debug", error |-> "No parking slots found for this camera"]
       ELSE IF \/ \E l \in DOMAIN parking_lots :
                     polygon_from_geojson_raises(parking_lots[l].polygon)
               \/ \E k \in DOMAIN parking_slots :
                     polygon_from_geojson_raises(parking_slots[k].polygon)
       THEN InternalServerError
       ELSE [op |-> "debug",
             error |-> "None",
             total_lots |-> Len(parking_lots),
             total_slots |-> Len(parking_slots),
             slot_mapping |->
                 [k \in 1..Len(parking_slots) |->
                     [slot_id |-> parking_slots[k].id,
                      lot_matches |->
                          SortByIou(lot_matches(
                              polygon_from_geojson(parking_slots[k].polygon)))]]]

----------------------------------------------------------------------------
(* The API as a state machine over the stored rows *)

InitApi ==
    /\ parking_slots \in SlotLayouts
    /\ parking_lots = <<>>
    /\ video \in {UploadedVideo, ProcessedVideo}
    /\ detections = <<>>
    /\ resp = [op |-> "none"]
    /\ IdleTracker
    /\ IdleTask

\* session.add(Detection(...)) followed by a commit: one more stored row.
StoreDetection(frame_number, bbox_normalized) ==
    /\ resp.op = "none"
    /\ Len(detections) < MaxDetections
    /\ detections' = Append(detections,
                            [id |-> Len(detections) + 1,
                             frame_number |-> frame_number,
                             bbox_normalized |-> bbox_normalized])
    /\ UNCHANGED <<parking_slots, parking_lots, video, resp>>
    /\ UNCHANGED trackerVars
    /\ UNCHANGED taskVars

\* The handlers are pure reads: each computes its response from the stored rows.
get_detections_by_frames(iou_threshold, limit, offset) ==
    /\ resp.op = "none"
    /\ resp' = by_frames_response(iou_threshold, limit, offset)
    /\ UNCHANGED <<parking_slots, parking_lots, video, detections>>
    /\ UNCHANGED trackerVars
    /\ UNCHANGED taskVars

get_frame_detections(frame_number, iou_threshold) ==
    /\ resp.op = "none"
    /\ resp' = frame_response(frame_number, iou_threshold)
    /\ UNCHANGED <<parking_slots, parking_lots, video, detections>>
    /\ UNCHANGED trackerVars
    /\ UNCHANGED taskVars

\* A rollup that deletes the rows it has read.
get_occupancy_stats_consuming(iou_threshold) ==
    /\ resp.op = "none"
    /\ resp' = stats_response(iou_threshold)
    /\ detections' = <<>>
    /\ UNCHANGED <<parking_slots, parking_lots, video>>
    /\ UNCHANGED trackerVars
    /\ UNCHANGED taskVars

get_occupancy_stats(iou_threshold) ==
    /\ resp.op = "none"
    /\ resp' = stats_response(iou_threshold)
    /\ UNCHANGED <<parking_slots, parking_lots, video, detections>>
    /\ UNCHANGED trackerVars
    /\ UNCHANGED taskVars

get_video_analytics(iou_threshold) ==
    /\ resp.op = "none"
    /\ resp' = analytics_response(iou_threshold)
    /\ UNCHANGED <<parking_slots, parking_lots, video, detections>>
    /\ UNCHANGED trackerVars
    /\ UNCHANGED taskVars

get_current_parking_status(iou_threshold) ==
    /\ resp.op = "none"
    /\ resp' = current_status_response(iou_threshold)
    /\ UNCHANGED <<parking_slots, parking_lots, video, detections>>
    /\ UNCHANGED trackerVars
    /\ UNCHANGED taskVars

get_lots_parking_status(iou_threshold) ==
    /\ resp.op = "none"
    /\ resp' = lots_status_response(iou_threshold)
    /\ UNCHANGED <<parking_slots, parking_lots, video, detections>>
    /\ UNCHANGED trackerVars
    /\ UNCHANGED taskVars

debug_slot_lot_mapping ==
    /\ resp.op = "none"
    /\ resp' = debug_mapping_response
    /\ UNCHANGED <<parking_slots, parking_lots, video, detections>>
    /\ UNCHANGED trackerVars
    /\ UNCHANGED taskVars

\* get_video_processing_status: the fields of the video and the progress
\* (50.0 while started and not processed, 100.0 when processed, else None).
processing_status_response ==
    [op |-> "status",
     processed |-> video.processed,
     processing_started_at |-> video.processing_started_at,
     processing_finished_at |-> video.processing_finished_at,
     processing_error |-> video.processing_error,
     progress_percentage |->
         IF video.processing_started_at /\ ~video.processed THEN <<50>>
         ELSE IF video.processed THEN <<100>>
         ELSE <<>>]

get_video_processing_status ==
    /\ resp.op = "none"
    /\ resp' = processing_status_response
    /\ UNCHANGED <<parking_slots, parking_lots, video, detections>>
    /\ UNCHANGED trackerVars
    /\ UNCHANGED taskVars

\* The response is sent; the next request can be served.
SendResponse ==
    /\ resp.op # "none"
    /\ resp' = [op |-> "none"]
    /\ UNCHANGED <<parking_slots, parking_lots, video, detections>>
    /\ UNCHANGED trackerVars
    /\ UNCHANGED taskVars

\* limit (1..100, default 10) and offset (>= 0) of get_detections_by_frames
Pages == {<<10, 0>>, <<1, 1>>}

NextApi ==
    \/ \E f \in FrameNumbers, b \in DetBoxes : StoreDetection(f, b)
    \/ \E thr \in Thresholds, page \in Pages :
          get_detections_by_frames(thr, page[1], page[2])
    \/ \E f \in FrameNumbers, thr \in Thresholds : get_frame_detections(f, thr)
    \/ \E thr \in Thresholds : get_occupancy_stats(thr)
    \/ \E thr \in Thresholds : get_video_analytics(thr)
    \/ \E thr \in Thresholds : get_current_parking_status(thr)
    \/ SendResponse

SpecApi == InitApi /\ [][NextApi]_vars

----------------------------------------------------------------------------
(* process_video_task and _process_video_frames (video_tasks.py)            *)

\* settings (config.py); confidences are in percent.
FRAME_STRIDE == 30
CONFIDENCE_THRESHOLD == 50
IOU_THRESHOLD == <<3, 10>>

\* if frame_idx % (frame_stride * 100) == 0: commit
CommitInterval == 100

\* @broker.task(retry_on_error=True, max_retries=2)
max_retries == 2

\* OccupancyTracker.__init__(confirm_frames = 3)
DefaultConfirmFrames == 3

\* Keys of vehicle_classes (VisDrone class ids).
vehicle_classes == 0..9

\* An optional argument: <<>> is None, <<v>> is the value v.
\* `arg or default` of Python: the default replaces None and every falsy value.
OrDefault(arg, default) ==
    IF arg = <<>> \/ arg[1] = 0 THEN default ELSE arg[1]

OrDefaultRate(arg, default) ==
    IF arg = <<>> \/ arg[1][1] = 0 THEN default ELSE arg[1]

\* One box of the detector: class id, confidence (percent), xyxy in pixels.
RawBox(cls, conf, x1, y1, x2, y2) ==
    [cls |-> cls, conf |-> conf, xyxy |-> BBox(x1, y1, x2, y2)]

\* What the detector returns for a frame.
DetectorOutputs ==
    {<<>>,
     <<RawBox(3, 90, 0, 0, 4, 4)>>,
     <<RawBox(3, 40, 0, 0, 4, 4), RawBox(10, 90, 4, 0, 8, 4)>>}

RECURSIVE SeqsUpTo(_, _)
SeqsUpTo(S, n) ==
    IF n = 0 THEN {<<>>}
    ELSE LET shorter == SeqsUpTo(S, n - 1)
         IN shorter \cup {Append(q, x) : q \in {r \in shorter : Len(r) = n - 1}, x \in S}

\* x / frame_width, in the grid units of the slot polygons (the frame is
\* Cardinality(XS) units wide and Cardinality(YS) units high).
Normalized(xyxy, frame_width, frame_height) ==
    BBox((xyxy.x1 * Cardinality(XS)) \div frame_width,
         (xyxy.y1 * Cardinality(YS)) \div frame_height,
         (xyxy.x2 * Cardinality(XS)) \div frame_width,
         (xyxy.y2 * Cardinality(YS)) \div frame_height)

\* The Detection rows added to the session for one analysed frame: the loop
\* over the boxes, after the first k boxes.  A row's id is fresh (its frame
\* and the position of its box).
RECURSIVE FrameRows(_, _, _, _)
FrameRows(boxes, frame_idx, confidence_threshold, k) ==
    IF k = 0 THEN <<>>
    ELSE LET rows == FrameRows(boxes, frame_idx, confidence_threshold, k - 1)
             box_data == boxes[k]
         IN IF box_data.cls \notin vehicle_classes
               \/ box_data.conf < confidence_threshold
            THEN rows
            ELSE Append(rows,
                        [id |-> <<frame_idx, k>>,
                         frame_number |-> frame_idx,
                         class_id |-> box_data.cls,
                         confidence |-> box_data.conf,
                         bbox |-> box_data.xyxy,
                         bbox_normalized |->
                             Normalized(box_data.xyxy, video_file.frame_width,
                                        video_file.frame_height)])

InitTask ==
    /\ task \in [pc : {"queued"},
                 frame_stride : {<<>>, <<1>>, <<2>>},
                 iou_threshold : {<<>>, << <<1, 2>> >>},
                 confidence_threshold : {<<>>, <<0>>, <<30>>},
                 frame_idx : {0},
                 detections_created : {0},
                 retries : {0}]
    /\ session = <<>>
    /\ video_file \in [frame_width : {8}, frame_height : {4},
                       frames : SeqsUpTo(DetectorOutputs, MaxFrames)]
    /\ events = <<>>
    /\ parking_slots \in {<<>>, <<SlotA, SlotB>>}
    /\ parking_lots \in {<<>>, <<LotAll>>}
    /\ video = UploadedVideo
    /\ detections = <<>>
    /\ resp = [op |-> "none"]
    /\ IdleTracker

\* process_video_task up to the try block: the defaults of the arguments,
\* processing_started_at, commit.
StartTask ==
    /\ task.pc = "queued"
    /\ task' = [task EXCEPT
                   !.pc = "load",
                   !.frame_stride = OrDefault(task.frame_stride, FRAME_STRIDE),
                   !.iou_threshold = OrDefaultRate(task.iou_threshold, IOU_THRESHOLD),
                   !.confidence_threshold =
                       OrDefault(task.confidence_threshold, CONFIDENCE_THRESHOLD)]
    /\ video' = [video EXCEPT !.processing_started_at = TRUE]
    /\ UNCHANGED <<parking_slots, parking_lots, detections, resp, session, video_file, events>>
    /\ UNCHANGED trackerVars

\* Mutant of Failed: the exception is swallowed, the video keeps its fields.
FailedSilently(error) ==
    /\ task' = [task EXCEPT !.pc = "failed"]
    /\ video' = video
    /\ detections' = detections \o session
    /\ session' = <<>>

\* except Exception: processed = False, processing_error, processing_finished_at,
\* commit (which also flushes the rows pending in the session), raise.
Failed(error) ==
    /\ task' = [task EXCEPT !.pc = "failed"]
    /\ video' = [video EXCEPT !.processed = FALSE,
                              !.processing_error = error,
                              !.processing_finished_at = TRUE]
    /\ detections' = detections \o session
    /\ session' = <<>>

\* The queries for the lots and slots of the camera; no slots raises ValueError.
LoadSlots ==
    /\ task.pc = "load"
    /\ IF parking_slots = <<>>
       THEN Failed("No parking slots defined for this camera")
       ELSE /\ task' = [task EXCEPT !.pc = "frames"]
            /\ UNCHANGED <<video, detections, session>>
    /\ UNCHANGED <<parking_slots, parking_lots, resp, video_file, events>>
    /\ UNCHANGED trackerVars

\* Mutant of ReadFrame: the loop without its commit every 100 frames.
ReadFrameNoCommit ==
    /\ task.pc = "frames"
    /\ task.frame_idx < Len(video_file.frames)
    /\ IF task.frame_idx % task.frame_stride # 0
       THEN /\ task' = [task EXCEPT !.frame_idx = @ + 1]
            /\ UNCHANGED <<detections, session>>
       ELSE LET rows == FrameRows(video_file.frames[task.frame_idx + 1],
                                  task.frame_idx, task.confidence_threshold,
                                  Len(video_file.frames[task.frame_idx + 1]))
            IN /\ task' = [task EXCEPT !.frame_idx = @ + 1,
                                       !.detections_created = @ + Len(rows)]
               /\ session' = session \o rows
               /\ UNCHANGED detections
    /\ UNCHANGED <<parking_slots, parking_lots, video, resp, video_file, events>>
    /\ UNCHANGED trackerVars

\* One iteration of the while loop of _process_video_frames that reads a frame.
ReadFrame ==
    /\ task.pc = "frames"
    /\ task.frame_idx < Len(video_file.frames)
    /\ IF task.frame_idx % task.frame_stride # 0
       THEN /\ task' = [task EXCEPT !.frame_idx = @ + 1]
            /\ UNCHANGED <<detections, session>>
       ELSE LET rows == FrameRows(video_file.frames[task.frame_idx + 1],
                                  task.frame_idx, task.confidence_threshold,
                                  Len(video_file.frames[task.frame_idx + 1]))
                added == session \o rows
            IN /\ task' = [task EXCEPT !.frame_idx = @ + 1,
                                       !.detections_created = @ + Len(rows)]
               /\ IF task.frame_idx % (task.frame_stride * CommitInterval) = 0
                  THEN /\ detections' = detections \o added
                       /\ session' = <<>>
                  ELSE /\ session' = added
                       /\ UNCHANGED detections
    /\ UNCHANGED <<parking_slots, parking_lots, video, resp, video_file, events>>
    /\ UNCHANGED trackerVars

\* cap.read() returns no frame: break, the final commit, cap.release(), return.
FinalCommit ==
    /\ task.pc = "frames"
    /\ task.frame_idx = Len(video_file.frames)
    /\ detections' = detections \o session
    /\ session' = <<>>
    /\ task' = [task EXCEPT !.pc = "finish"]
    /\ UNCHANGED <<parking_slots, parking_lots, video, resp, video_file, events>>
    /\ UNCHANGED trackerVars

\* video.processed = True, processing_finished_at, commit, return the result.
MarkProcessed ==
    /\ task.pc = "finish"
    /\ video' = [video EXCEPT !.processed = TRUE, !.processing_finished_at = TRUE]
    /\ task' = [task EXCEPT !.pc = "done"]
    /\ UNCHANGED <<parking_slots, parking_lots, detections, resp, session, video_file, events>>
    /\ UNCHANGED trackerVars

\* An exception inside the try block (missing file, decoder, detector or
\* database error).
RaiseError ==
    /\ task.pc \in {"load", "frames", "finish"}
    /\ Failed("error")
    /\ UNCHANGED <<parking_slots, parking_lots, resp, video_file, events>>
    /\ UNCHANGED trackerVars

NextTask ==
    \/ StartTask
    \/ LoadSlots
    \/ ReadFrame
    \/ FinalCommit
    \/ MarkProcessed
    \/ RaiseError

SpecTask == InitTask /\ [][NextTask]_vars

----------------------------------------------------------------------------
(* The task under its broker: a failed invocation is run again, at most     *)
(* max_retries times, while the status of the video is polled               *)

\* The broker invokes process_video_task again with the same arguments: the
\* function starts anew (a new session, frame_idx = 0) up to the try block,
\* on the rows the failed invocation has committed.
Retry ==
    /\ task.pc = "failed"
    /\ task.retries < max_retries
    /\ task' = [task EXCEPT !.pc = "load",
                            !.frame_idx = 0,
                            !.detections_created = 0,
                            !.retries = @ + 1]
    /\ video' = [video EXCEPT !.processing_started_at = TRUE]
    /\ session' = <<>>
    /\ UNCHANGED <<parking_slots, parking_lots, detections, resp, video_file, events>>
    /\ UNCHANGED trackerVars

NextRetry ==
    \/ resp.op = "none" /\ NextTask
    \/ resp.op = "none" /\ Retry
    \/ get_video_processing_status
    \/ SendResponse

SpecRetry == InitTask /\ [][NextRetry]_vars

----------------------------------------------------------------------------
(* A long video: the commits of _process_video_frames every 100 analysed   *)
(* frames, and the worker process dying at any moment                      *)

\* A video of n frames with one car in each.
LongVideo(n) ==
    [frame_width |-> 8, frame_height |-> 4,
     frames |-> [i \in 1..n |-> <<RawBox(3, 90, 0, 0, 4, 4)>>]]

InitBatch ==
    /\ task \in [pc : {"queued"},
                 frame_stride : {<<1>>, <<2>>},
                 iou_threshold : {<<>>},
                 confidence_threshold : {<<>>},
                 frame_idx : {0},
                 detections_created : {0},
                 retries : {0}]
    /\ session = <<>>
    /\ video_file \in {LongVideo(MaxBatchFrames), LongVideo(MaxBatchFrames - CommitInterval)}
    /\ events = <<>>
    /\ parking_slots = <<SlotA, SlotB>>
    /\ parking_lots = <<>>
    /\ video = UploadedVideo
    /\ detections = <<>>
    /\ resp = [op |-> "none"]
    /\ IdleTracker

\* The worker process dies (kill, power loss): what the session has not
\* committed is lost, the committed rows stay, nothing else is written.
Crash ==
    /\ task.pc \in {"load", "frames", "finish"}
    /\ task' = [task EXCEPT !.pc = "crashed"]
    /\ session' = <<>>
    /\ UNCHANGED <<parking_slots, parking_lots, video, detections, resp, video_file, events>>
    /\ UNCHANGED trackerVars

NextBatch ==
    \/ NextTask
    \/ Crash

SpecBatch == InitBatch /\ [][NextBatch]_vars

----------------------------------------------------------------------------
(* The rollups of a camera over the frames of its video                     *)

\* The cameras: their slots and lots, in the order the queries return them.
Camera(slots, lots) == [slots |-> slots, lots |-> lots]
Cameras ==
    {Camera(<<>>, <<LotAll>>),
     Camera(<<SlotA, SlotB, SlotC>>, <<LotEast, LotAll>>),
     Camera(<<SlotU, SlotZ, SlotB>>, <<LotEast, Lot10>>),
     Camera(<<SlotA, SlotB>>, <<LotEdge, LotEast>>)}

\* bbox_normalized of the detections stored for one analysed frame.
FrameContents ==
    {<<BBox(0, 0, 2, 2)>>,
     <<BBox(2, 0, 4, 2), BBox(3, 0, 4, 1)>>}

RollupThresholds == {IOU_THRESHOLD}

InitRollup ==
    /\ \E cam \in Cameras :
          /\ parking_slots = cam.slots
          /\ parking_lots = cam.lots
    /\ video = ProcessedVideo
    /\ detections = <<>>
    /\ resp = [op |-> "none"]
    /\ IdleTracker
    /\ IdleTask

\* The stored rows of the video, frame by frame: the Detection rows of its
\* next analysed frame.
StoreFrame(boxes) ==
    /\ resp.op = "none"
    /\ Cardinality(DistinctFrames(detections)) < MaxRollupFrames
    /\ LET frame_idx == IF detections = <<>> THEN 0
                        ELSE MaxFrameNumber(detections) + FRAME_STRIDE
       IN detections' = detections \o
              [i \in 1..Len(boxes) |->
                  [id |-> Len(detections) + i,
                   frame_number |-> frame_idx,
                   bbox_normalized |-> boxes[i]]]
    /\ UNCHANGED <<parking_slots, parking_lots, video, resp>>
    /\ UNCHANGED trackerVars
    /\ UNCHANGED taskVars

NextRollup ==
    \/ \E boxes \in FrameContents : StoreFrame(boxes)
    \/ \E thr \in RollupThresholds : get_occupancy_stats(thr)
    \/ \E thr \in RollupThresholds : get_video_analytics(thr)
    \/ \E thr \in RollupThresholds : get_current_parking_status(thr)
    \/ \E thr \in RollupThresholds : get_lots_parking_status(thr)
    \/ SendResponse

SpecRollup == InitRollup /\ [][NextRollup]_vars

----------------------------------------------------------------------------
(* The geometry adapter under the endpoints: slots and lots as they can be   *)
(* stored (PolygonCoordinates accepts any list of rings)                    *)

\* A slot or lot whose stored ring is the given list of points.
WithRing(id, ring) == [id |-> id, name |-> id, polygon |-> GeoJson(ring)]

SlotEmptyRing == WithRing("E", <<>>)
SlotTwoPoints == WithRing("T", << <<0, 0>>, <<1, 1>> >>)
LotZeroArea == Lot("LZero", 1, 0, 1, 2)
LotTwoPoints == WithRing("LTwo", << <<0, 0>>, <<4, 2>> >>)

DegenerateSlots == {SlotZ, SlotEmptyRing, SlotTwoPoints}
GeometrySlotLayouts ==
    {<<s>> : s \in {SlotU, SlotA, SlotC} \cup DegenerateSlots}
        \cup {<<SlotU, s>> : s \in DegenerateSlots}
GeometryLotLayouts ==
    {<<Lot10>>, <<LotEast, LotAll>>, <<LotAll, LotZeroArea>>, <<LotAll, LotTwoPoints>>}

\* bbox_normalized of stored detections: the unit square, larger boxes and a
\* box of zero area.
GeometryBoxes == {BBox(0, 0, 1, 1), BBox(0, 0, 2, 2), BBox(1, 0, 3, 2), BBox(2, 0, 2, 2)}
GeometryThresholds == {IOU_THRESHOLD, <<1, 1>>}

InitGeometry ==
    /\ parking_slots \in GeometrySlotLayouts
    /\ parking_lots \in GeometryLotLayouts
    /\ video = ProcessedVideo
    /\ detections = <<>>
    /\ resp = [op |-> "none"]
    /\ IdleTracker
    /\ IdleTask

NextGeometry ==
    \/ \E b \in GeometryBoxes : StoreDetection(0, b)
    \/ \E thr \in GeometryThresholds : get_frame_detections(0, thr)
    \/ debug_slot_lot_mapping
    \/ SendResponse

SpecGeometry == InitGeometry /\ [][NextGeometry]_vars

----------------------------------------------------------------------------
(* The task and the endpoints together: the endpoints read what the task    *)
(* has committed                                                            *)

NextQuery ==
    \/ \E f \in 0..(MaxFrames - 1) : get_frame_detections(f, IOU_THRESHOLD)
    \/ get_occupancy_stats(IOU_THRESHOLD)
    \/ get_video_analytics(IOU_THRESHOLD)
    \/ get_current_parking_status(IOU_THRESHOLD)
    \/ get_lots_parking_status(IOU_THRESHOLD)
    \/ SendResponse

NextPipeline ==
    \/ resp.op = "none" /\ NextTask
    \/ NextQuery

SpecPipeline == InitTask /\ [][NextPipeline]_vars

----------------------------------------------------------------------------
(* Claims about process_video_task *)

\* A stored detection of frame f has IoU >= the task's iou_threshold with the slot.
OccupiedInFrame(slot, f) ==
    \E i \in DOMAIN detections :
        /\ detections[i].frame_number = f
        /\ RatGeq(calculate_iou(bbox_to_polygon(detections[i].bbox_normalized),
                                polygon_from_geojson(slot.polygon)),
                  task.iou_threshold)

\* The slot is occupied in DefaultConfirmFrames consecutive processed frames.
OccupiedRun(slot) ==
    \E f \in 0..(Len(video_file.frames) - 1) :
        \A n \in 0..(DefaultConfirmFrames - 1) :
            /\ f % task.frame_stride = 0
            /\ f + n * task.frame_stride < Len(video_file.frames)
            /\ OccupiedInFrame(slot, f + n * task.frame_stride)

\* C6: processing a video records a confirmed status-change event each time
\* the tracker confirms a change: after a completed run, a slot that is
\* occupied in confirm_frames consecutive processed frames has an "occupied"
\* event recorded.
C6_OccupiedRunRecordsEvent ==
    task.pc = "done" =>
        \A k \in DOMAIN parking_slots :
            OccupiedRun(parking_slots[k]) =>
                \E i \in DOMAIN events :
                    /\ events[i].slot_id = parking_slots[k].id
                    /\ events[i].status = "occupied"

----------------------------------------------------------------------------
(* Claims about the slot matcher and the per-frame occupancy *)

\* The detection entries of a response of get_frame_detections or
\* get_detections_by_frames.
Entries ==
    IF resp.op = "frame"
    THEN {resp.detections[i] : i \in DOMAIN resp.detections}
    ELSE IF resp.op = "by_frames"
    THEN UNION {{resp.frames[i].detections[j] : j \in DOMAIN resp.frames[i].detections} :
                    i \in DOMAIN resp.frames}
    ELSE {}

\* The IoU of a detection box with the k-th slot of the camera.
IoUWith(bbox_normalized, k) ==
    calculate_iou(bbox_to_polygon(bbox_normalized),
                  polygon_from_geojson(parking_slots[k].polygon))

SlotIndex(slot_id) == CHOOSE k \in DOMAIN parking_slots : parking_slots[k].id = slot_id

\* The slots with which some stored detection of frame f has IoU >= thr.
SlotsWithDetection(f, thr) ==
    {parking_slots[k].id : k \in
        {j \in DOMAIN parking_slots :
            \E i \in DOMAIN detections :
                /\ detections[i].frame_number = f
                /\ RatGeq(IoUWith(detections[i].bbox_normalized, j), thr)}}

DetectionsOfFrame(f) == Len(RowsOfFrame(detections, f))

\* C7: when the matcher returns a slot, that slot's IoU with the detection is
\* >= the IoU of every other slot and >= the threshold, and the reported iou
\* is that slot's IoU.
C7_MatchIsBestAndAboveThreshold ==
    \A e \in Entries :
        e.is_in_slot =>
            /\ \E k \in DOMAIN parking_slots : parking_slots[k].id = e.parking_slot_id
            /\ LET m == SlotIndex(e.parking_slot_id)
               IN /\ \A k \in DOMAIN parking_slots :
                        RatGeq(IoUWith(e.bbox_normalized, m), IoUWith(e.bbox_normalized, k))
                  /\ RatGeq(IoUWith(e.bbox_normalized, m), resp.iou_threshold)
                  /\ e.iou # NoIou
                  /\ RatEq(e.iou, IoUWith(e.bbox_normalized, m))

\* A matched entry whose slot is not the first one, with another slot that
\* also reaches the threshold but has a smaller IoU.
C7_Witness ==
    \E e \in Entries :
        /\ e.is_in_slot
        /\ SlotIndex(e.parking_slot_id) > 1
        /\ \E k \in DOMAIN parking_slots :
              /\ RatGeq(IoUWith(e.bbox_normalized, k), resp.iou_threshold)
              /\ RatGt(e.iou, IoUWith(e.bbox_normalized, k))

\* C8 as claimed: for a non-empty slot set the matcher returns a slot if and
\* only if some slot's IoU is >= the threshold (threshold 0 included).
C8_MatchIffAboveThreshold ==
    \A e \in Entries :
        parking_slots # <<>> =>
            (e.is_in_slot <=>
                \E k \in DOMAIN parking_slots :
                    RatGeq(IoUWith(e.bbox_normalized, k), resp.iou_threshold))

\* C8 as amended: the matcher returns a slot if and only if some slot's IoU is
\* >= the threshold and > 0.
C8_MatchIffPositiveAndAboveThreshold ==
    \A e \in Entries :
        parking_slots # <<>> =>
            (e.is_in_slot <=>
                \E k \in DOMAIN parking_slots :
                    /\ RatGeq(IoUWith(e.bbox_normalized, k), resp.iou_threshold)
                    /\ RatGt(IoUWith(e.bbox_normalized, k), Zero))

\* Both cases of the amended claim in one response: threshold 0 with a
\* detection that overlaps no slot (not matched) and one that does (matched).
C8_Witness ==
    /\ parking_slots # <<>>
    /\ resp.op \in {"frame", "by_frames"}
    /\ resp.iou_threshold = Zero
    /\ \E e \in Entries :
          /\ ~e.is_in_slot
          /\ \A k \in DOMAIN parking_slots : RatEq(IoUWith(e.bbox_normalized, k), Zero)
    /\ \E e \in Entries : e.is_in_slot

\* C9: in every per-frame occupancy result each detection marks at most one
\* slot as occupied, so the occupied slots of a frame never outnumber the
\* detections of that frame.
C9_OccupiedAtMostDetections ==
    /\ resp.op = "frame" =>
          Cardinality(resp.occupancy.occupied_slots) <= resp.total_vehicles
    /\ resp.op = "stats" =>
          \A i \in DOMAIN resp.timeline :
              resp.timeline[i].occupied_slots <= resp.timeline[i].total_detections
    /\ resp.op = "analytics" =>
          \A i \in DOMAIN resp.occupancy_timeline :
              resp.occupancy_timeline[i].occupied_slots
                  <= resp.occupancy_timeline[i].total_vehicles
    /\ (resp.op = "current" /\ resp.status = "ok") =>
          resp.summary.occupied <= DetectionsOfFrame(resp.frame_number)

\* C10: in every frame snapshot a slot is reported occupied if and only if at
\* least one detection of that frame has IoU >= iou_threshold with that slot.
C10_OccupiedIffSomeDetectionOverlaps ==
    /\ (resp.op = "frame" /\ resp.total_vehicles > 0) =>
          resp.occupancy.occupied_slots
              = SlotsWithDetection(resp.frame_number, resp.iou_threshold)
    /\ resp.op = "stats" =>
          \A i \in DOMAIN resp.timeline :
              resp.timeline[i].occupied_slots =
                  Cardinality(SlotsWithDetection(resp.timeline[i].frame_number,
                                                 resp.iou_threshold))
    /\ resp.op = "analytics" =>
          \A i \in DOMAIN resp.occupancy_timeline :
              resp.occupancy_timeline[i].occupied_slots =
                  Cardinality(SlotsWithDetection(resp.occupancy_timeline[i].frame_number,
                                                 resp.iou_threshold))
    /\ (resp.op = "current" /\ resp.status = "ok") =>
          \A k \in DOMAIN resp.slots :
              (resp.slots[k].status = "occupied") <=>
                  (resp.slots[k].id
                      \in SlotsWithDetection(resp.frame_number, resp.iou_threshold))

----------------------------------------------------------------------------
(* Claims about the timelines                                               *)

\* The frames the loop of _process_video_frames analysed in a completed run.
ProcessedFrames ==
    {f \in 0..(Len(video_file.frames) - 1) : f % task.frame_stride = 0}

\* C11: after a completed run every analysed frame appears in the video's
\* timeline, a frame without stored detection included (with zero occupied
\* slots), so frames_analyzed equals the number of analysed frames.
C11_EveryProcessedFrameInTimeline ==
    task.pc = "done" =>
        /\ resp.op = "stats" =>
              /\ resp.frames_analyzed = Cardinality(ProcessedFrames)
              /\ \A f \in ProcessedFrames :
                    \E i \in DOMAIN resp.timeline : resp.timeline[i].frame_number = f
        /\ resp.op = "analytics" =>
              /\ resp.total_detections > 0 =>
                    resp.frames_analyzed = Cardinality(ProcessedFrames)
              /\ \A f \in ProcessedFrames :
                    \E i \in DOMAIN resp.occupancy_timeline :
                        resp.occupancy_timeline[i].frame_number = f
        /\ (resp.op = "frame" /\ resp.frame_number \in ProcessedFrames
               /\ \A i \in DOMAIN detections :
                      detections[i].frame_number # resp.frame_number) =>
              /\ resp.total_vehicles = 0
              /\ resp.occupancy.occupied_slots = {}

\* The frame numbers that have a stored detection, and the number of them
\* below f.
FramesWithDetections == {detections[i].frame_number : i \in DOMAIN detections}
Rank(f) == Cardinality({g \in FramesWithDetections : g < f})

\* The frame numbers of the entries of a timeline, in its order.
FrameNumbersOf(timeline) == [i \in DOMAIN timeline |-> timeline[i].frame_number]

StrictlyAscending(seq) == \A i, j \in DOMAIN seq : i < j => seq[i] < seq[j]

\* The frames of seq are exactly those of S, each once, in ascending order.
OneEntryPerFrame(seq, S) ==
    /\ StrictlyAscending(seq)
    /\ {seq[i] : i \in DOMAIN seq} = S

\* C12: the timeline of get_detections_by_frames, get_occupancy_stats and
\* get_video_analytics has exactly one entry per frame number that has a
\* detection among the selected frames (the page limit/offset of the ascending
\* frame numbers; the last TimelineLimit frames for the analytics), in strictly
\* ascending order, whatever the order in which the detections were stored.
C12_TimelineOneEntryPerFrameAscending ==
    /\ resp.op = "by_frames" =>
          OneEntryPerFrame(FrameNumbersOf(resp.frames),
                           {f \in FramesWithDetections :
                               /\ resp.offset <= Rank(f)
                               /\ Rank(f) < resp.offset + resp.limit})
    /\ resp.op = "stats" =>
          OneEntryPerFrame(FrameNumbersOf(resp.timeline), FramesWithDetections)
    /\ resp.op = "analytics" =>
          OneEntryPerFrame(FrameNumbersOf(resp.occupancy_timeline),
                           {f \in FramesWithDetections :
                               Rank(f) >= Cardinality(FramesWithDetections)
                                              - TimelineLimit})

\* Detections stored against the frame order, and a timeline of two frames.
C12_Witness ==
    /\ Len(detections) >= 2
    /\ detections[1].frame_number > detections[2].frame_number
    /\ \/ resp.op = "by_frames" /\ Len(resp.frames) = 2
       \/ resp.op = "stats" /\ Len(resp.timeline) = 2

\* The number of stored detections of the video with frame number f.
StoredCount(f) == Cardinality({i \in DOMAIN detections : detections[i].frame_number = f})

\* The ids of the entries of a detection list.
EntryIds(entries) == {entries[i].id : i \in DOMAIN entries}

\* C13: get_frame_detections reports total_vehicles equal to the number of
\* stored detections with that frame number and returns exactly that many
\* entries, one per stored detection (0 and an empty list when there is none);
\* each frame entry of get_detections_by_frames has total_vehicles equal to
\* the length of its detections list.
C13_TotalVehiclesCountsDetections ==
    /\ resp.op = "frame" =>
          /\ resp.total_vehicles = StoredCount(resp.frame_number)
          /\ Len(resp.detections) = resp.total_vehicles
          /\ Cardinality(EntryIds(resp.detections)) = resp.total_vehicles
          /\ EntryIds(resp.detections) =
                {detections[i].id : i \in
                    {j \in DOMAIN detections :
                        detections[j].frame_number = resp.frame_number}}
    /\ resp.op = "by_frames" =>
          \A i \in DOMAIN resp.frames :
              /\ resp.frames[i].total_vehicles = Len(resp.frames[i].detections)
              /\ resp.frames[i].total_vehicles = StoredCount(resp.frames[i].frame_number)

\* A frame of two detections of which one matches no slot, next to a frame
\* that has none.
C13_Witness ==
    /\ resp.op = "frame"
    /\ resp.total_vehicles = 2
    /\ \E i, j \in DOMAIN resp.detections :
          resp.detections[i].is_in_slot /\ ~resp.detections[j].is_in_slot
    /\ \E f \in FrameNumbers : StoredCount(f) = 0

----------------------------------------------------------------------------
(* Claims about the rollups                                                 *)

\* The number of frames in which the slot is occupied: frames with a stored
\* detection whose IoU with the slot reaches the threshold.
OccupiedFrames(slot_id, thr) ==
    LET k == SlotIndex(slot_id)
        poly == polygon_from_geojson(parking_slots[k].polygon)
    IN Cardinality({detections[i].frame_number : i \in
           {j \in DOMAIN detections :
               RatGeq(calculate_iou(bbox_to_polygon(detections[j].bbox_normalized),
                                    poly),
                      thr)}})

\* p / 100 is n / d to two decimals: the distance is at most half a hundredth.
IsRounded(p, n, d) ==
    /\ 2 * (100 * n - p * d) <= d
    /\ 2 * (p * d - 100 * n) <= d

LotLabel(n, d) ==
    IF d = 0 THEN "free"
    ELSE IF 100 * n >= 95 * d THEN "full"
    ELSE IF 10 * n >= 7 * d THEN "busy"
    ELSE IF 10 * n >= 3 * d THEN "moderate"
    ELSE "free"

\* The frames in which the slots at the positions of S are occupied, summed.
RECURSIVE SumOccupiedFrames(_, _)
SumOccupiedFrames(S, thr) ==
    IF S = {} THEN 0
    ELSE LET k == CHOOSE j \in S : TRUE
         IN OccupiedFrames(parking_slots[k].id, thr) + SumOccupiedFrames(S \ {k}, thr)

\* The coverage of the slot at position k by the lot at position l is >= 1/2.
Covers(l, k) ==
    LET slot_poly == polygon_from_geojson(parking_slots[k].polygon)
        lot_poly == polygon_from_geojson(parking_lots[l].polygon)
    IN /\ Cardinality(slot_poly) > 0
       /\ 2 * Cardinality(slot_poly \cap lot_poly) >= Cardinality(slot_poly)

\* The positions of the slots resolved to the lot at position l: the lot is
\* the first of the camera's lots that covers the slot.
Members(l) ==
    {k \in DOMAIN parking_slots :
        /\ Covers(l, k)
        /\ \A m \in 1..(l - 1) : ~Covers(m, k)}

LotPosition(lot_id) == CHOOSE l \in DOMAIN parking_lots : parking_lots[l].id = lot_id

\* C15: every lot-level rollup (the lots of get_lots_parking_status and the
\* lot_statistics of get_video_analytics) labels a lot full when its rate is
\* >= 0.95, busy when 0.7 <= rate < 0.95, moderate when 0.3 <= rate < 0.7 and
\* free otherwise.
C15_LotStatusThresholds ==
    /\ (resp.op = "lots" /\ resp.status = "ok") =>
          \A i \in DOMAIN resp.lots :
              resp.lots[i].status = LotLabel(resp.lots[i].occupied, resp.lots[i].capacity)
    /\ (resp.op = "analytics" /\ resp.total_detections > 0) =>
          \A i \in DOMAIN resp.lot_statistics :
              LET e == resp.lot_statistics[i]
              IN e.status =
                     LotLabel(SumOccupiedFrames(Members(LotPosition(e.lot_id)),
                                                resp.iou_threshold),
                              e.total_slots * resp.frames_analyzed)

\* The lots of the camera that have a member slot.
LotsWithMembers == {parking_lots[l].id : l \in {m \in DOMAIN parking_lots : Members(m) # {}}}

AssignedLot(k) ==
    IF \E l \in DOMAIN parking_lots : Covers(l, k)
    THEN parking_lots[CHOOSE l \in DOMAIN parking_lots :
                         /\ Covers(l, k)
                         /\ \A m \in 1..(l - 1) : ~Covers(m, k)].id
    ELSE "None"

\* C17: the resolver assigns a slot to the first lot, in the iteration order
\* of the camera's lots, whose coverage of the slot is >= 0.5, and to no lot
\* when none qualifies or the slot has zero area; each lot's capacity counts
\* the slots assigned to it.  A 1 x 1 slot inside a 10 x 10 lot has coverage 1
\* and gives that lot capacity 1.
C17_SlotAssignedToFirstCoveringLot ==
    /\ resp.op = "lots" => \A k \in DOMAIN parking_slots :
          /\ slot_to_lot_map(parking_slots, parking_lots)[k] = AssignedLot(k)
          /\ polygon_from_geojson(parking_slots[k].polygon) = {} => AssignedLot(k) = "None"
    /\ (resp.op = "lots" /\ resp.status = "ok") =>
          /\ \A i \in DOMAIN resp.lots :
                resp.lots[i].capacity =
                    Cardinality({k \in DOMAIN parking_slots :
                                    AssignedLot(k) = resp.lots[i].id})
          /\ resp.summary.total_capacity =
                Cardinality({k \in DOMAIN parking_slots : AssignedLot(k) # "None"})
          /\ \A k \in DOMAIN parking_slots, i \in DOMAIN resp.lots :
                (parking_slots[k] = SlotU /\ resp.lots[i].id = Lot10.id
                   /\ \A j \in DOMAIN parking_slots : j # k => AssignedLot(j) # Lot10.id)
                    => /\ Cardinality(polygon_from_geojson(SlotU.polygon)
                                         \cap polygon_from_geojson(Lot10.polygon))
                             = Cardinality(polygon_from_geojson(SlotU.polygon))
                       /\ resp.lots[i].capacity = 1

\* The 1 x 1 slot is the only slot of the 10 x 10 lot, a slot that the 10 x 10
\* lot covers as well is in the lot listed before it, and a slot of zero area
\* is in no lot.
C17_Witness ==
    /\ resp.op = "lots"
    /\ resp.status = "ok"
    /\ \E i \in DOMAIN resp.lots : resp.lots[i].id = Lot10.id /\ resp.lots[i].capacity = 1
    /\ \E k \in DOMAIN parking_slots : parking_slots[k] = SlotU /\ AssignedLot(k) = Lot10.id
    /\ \E k \in DOMAIN parking_slots :
          /\ AssignedLot(k) = parking_lots[1].id
          /\ Covers(2, k)
    /\ \E k \in DOMAIN parking_slots :
          /\ polygon_from_geojson(parking_slots[k].polygon) = {}
          /\ AssignedLot(k) = "None"

\* The capacity the camera's geometry gives a lot: the number of slots that
\* are resolved to it.
GeometricCapacity(lot_id) ==
    Cardinality({k \in DOMAIN parking_slots : AssignedLot(k) = lot_id})

\* C18: a lot's reported capacity depends only on the slot and lot polygons:
\* get_lots_parking_status reports for every lot the capacity its geometry
\* gives it, whether the latest processed video has detections (status ok) or
\* none (status no_detections).
C18_CapacityIndependentOfDetections ==
    (resp.op = "lots" /\ resp.status \in {"ok", "no_detections"}) =>
        \A i \in DOMAIN resp.lots :
            resp.lots[i].capacity = GeometricCapacity(resp.lots[i].id)

\* A rate that a division produced (non-zero denominator), and the rate 0.
Divided(r) == r[2] > 0
IsZero(r) == r[1] = 0 /\ r[2] > 0

\* C19: no rate computation divides by zero.  Every rate of every response is
\* the result of a division by a non-zero number or the constant 0: with zero
\* slots every timeline frame reports total_slots = 0 and occupancy_rate = 0,
\* with zero frames the average and peak rates are 0, and a lot with zero
\* member slots has rate 0.
C19_NoDivisionByZero ==
    /\ resp.op = "stats" =>
          /\ Divided(resp.average_occupancy_rate)
          /\ \A i \in DOMAIN resp.timeline :
                /\ Divided(resp.timeline[i].occupancy_rate)
                /\ resp.timeline[i].total_slots = Len(parking_slots)
                /\ Len(parking_slots) = 0 =>
                      /\ resp.timeline[i].total_slots = 0
                      /\ IsZero(resp.timeline[i].occupancy_rate)
          /\ (Len(parking_slots) = 0 \/ resp.frames_analyzed = 0) =>
                IsZero(resp.average_occupancy_rate)
    /\ resp.op = "analytics" =>
          /\ Divided(resp.summary.average_occupancy_rate)
          /\ Divided(resp.summary.peak_occupancy_rate)
          /\ \A i \in DOMAIN resp.occupancy_timeline :
                /\ Divided(resp.occupancy_timeline[i].occupancy_rate)
                /\ Len(parking_slots) = 0 =>
                      IsZero(resp.occupancy_timeline[i].occupancy_rate)
          /\ \A i \in DOMAIN resp.slot_statistics :
                Divided(resp.slot_statistics[i].occupancy_rate)
          /\ \A i \in DOMAIN resp.lot_statistics :
                Divided(resp.lot_statistics[i].occupancy_rate)
          /\ (Len(parking_slots) = 0 \/ resp.occupancy_timeline = <<>>) =>
                /\ IsZero(resp.summary.average_occupancy_rate)
                /\ IsZero(resp.summary.peak_occupancy_rate)
    /\ resp.op = "current" => Divided(resp.summary.occupancy_rate)
    /\ resp.op = "lots" =>
          /\ Divided(resp.summary.avg_occupancy_rate)
          /\ resp.summary.total_capacity = 0 => IsZero(resp.summary.avg_occupancy_rate)
          /\ \A i \in DOMAIN resp.lots :
                /\ Divided(resp.lots[i].occupancy_rate)
                /\ resp.lots[i].capacity = 0 => IsZero(resp.lots[i].occupancy_rate)

\* The rollup of a video with stored frames for a camera that has no slots.
C19_Witness ==
    /\ resp.op = "stats"
    /\ parking_slots = <<>>
    /\ resp.frames_analyzed >= 2
    /\ \A i \in DOMAIN resp.timeline :
          resp.timeline[i].total_slots = 0 /\ IsZero(resp.timeline[i].occupancy_rate)

\* The result variant the reference data of the camera calls for, the checks
\* made in the order no_data, then no_slots or no_lots, then no_detections.
ExpectedVariant(reference, missing) ==
    IF ~video.processed THEN "no_data"
    ELSE IF reference = <<>> THEN missing
    ELSE IF detections = <<>> THEN "no_detections"
    ELSE "ok"

\* The endpoints' part of C20: current-status and lots-status return the
\* variant the reference data calls for, with nothing occupied in a no-data
\* variant.
NoDataVariantsInOrder ==
    /\ resp.op = "current" =>
          /\ resp.status = ExpectedVariant(parking_slots, "no_slots")
          /\ resp.status # "ok" =>
                resp.summary.occupied = 0 /\ IsZero(resp.summary.occupancy_rate)
    /\ resp.op = "lots" =>
          /\ resp.status = ExpectedVariant(parking_lots, "no_lots")
          /\ resp.status # "ok" =>
                /\ resp.summary.total_capacity = 0
                /\ resp.summary.total_occupied = 0
                /\ IsZero(resp.summary.avg_occupancy_rate)

\* C20: when reference data is missing for a camera, every operation that
\* runs the aggregation returns an explicit no-data variant (no_data, then
\* no_slots or no_lots, then no_detections, ok only when none applies) and
\* does not raise: process_video_task does not fail for a camera that has no
\* slots.
C20_MissingReferenceDataIsAVariant ==
    /\ NoDataVariantsInOrder
    /\ parking_slots = <<>> => task.pc # "failed"

----------------------------------------------------------------------------
(* Claims about the current status and the reads                            *)

\* The last frame a completed run analysed.
LastAnalysedFrame == CHOOSE f \in ProcessedFrames : \A g \in ProcessedFrames : g <= f

\* A stored detection of frame f overlaps the slot with IoU >= thr.
SlotOccupiedIn(slot, f, thr) ==
    \E i \in DOMAIN detections :
        /\ detections[i].frame_number = f
        /\ RatGeq(calculate_iou(bbox_to_polygon(detections[i].bbox_normalized),
                                polygon_from_geojson(slot.polygon)), thr)

\* C21: the current status of a camera is computed from the latest processed
\* frame: the video used is a processed one (never an unprocessed or failed
\* one), the frame used is the last frame analysed in that video, and a slot
\* is shown occupied only if it is occupied in that last analysed frame.
C21_CurrentStatusFromLastAnalysedFrame ==
    /\ (resp.op \in {"current", "lots"} /\ resp.status # "no_data") => video.processed
    /\ (resp.op \in {"current", "lots"} /\ resp.status = "ok"
           /\ task.pc = "done" /\ ProcessedFrames # {}) =>
          resp.frame_number = LastAnalysedFrame
    /\ (resp.op = "current" /\ resp.status = "ok"
           /\ task.pc = "done" /\ ProcessedFrames # {}) =>
          \A k \in DOMAIN resp.slots :
              resp.slots[k].status = "occupied" =>
                  SlotOccupiedIn(parking_slots[k], LastAnalysedFrame, resp.iou_threshold)

\* The rollup operations, and the response a rollup gives when the request
\* that resp answers is made again.
RollupOps == {"stats", "analytics", "current", "lots"}
Recomputed ==
    CASE resp.op = "stats" -> stats_response(resp.iou_threshold)
      [] resp.op = "analytics" -> analytics_response(resp.iou_threshold)
      [] resp.op = "current" -> current_status_response(resp.iou_threshold)
      [] resp.op = "lots" -> lots_status_response(resp.iou_threshold)
      [] OTHER -> resp

----------------------------------------------------------------------------
(* Claims about the geometry adapter                                        *)

\* The polygons of the stored rows: of the slots and lots whose conversion
\* succeeds, and of the detections' boxes.
StoredPolygons ==
    {polygon_from_geojson(parking_slots[k].polygon) :
        k \in {j \in DOMAIN parking_slots :
                  ~polygon_from_geojson_raises(parking_slots[j].polygon)}}
    \cup {polygon_from_geojson(parking_lots[l].polygon) :
        l \in {j \in DOMAIN parking_lots :
                  ~polygon_from_geojson_raises(parking_lots[j].polygon)}}
    \cup {bbox_to_polygon(detections[i].bbox_normalized) : i \in DOMAIN detections}

\* The slot polygon [(0,0),(1,0),(1,1),(0,1)] and the box coincident with it.
UnitBox == BBox(0, 0, 1, 1)

InUnitInterval(r) == r[2] > 0 /\ 0 <= r[1] /\ r[1] <= r[2]

\* The stored lot with the given id.
LotById(lot_id) ==
    parking_lots[CHOOSE l \in DOMAIN parking_lots : parking_lots[l].id = lot_id]

\* The values part of C24: every IoU and coverage that is computed lies in
\* [0, 1]; the IoU is 0 when the union area is 0, and the coverage is 0 and the
\* containment false when the slot's area is 0.
DegenerateValuesAreZero ==
    /\ (resp.op = "debug" /\ resp.error = "None") =>
          \A k \in DOMAIN resp.slot_mapping :
              \A m \in DOMAIN resp.slot_mapping[k].lot_matches :
                  LET e == resp.slot_mapping[k].lot_matches[m]
                      slot_poly == polygon_from_geojson(parking_slots[k].polygon)
                      lot_poly == polygon_from_geojson(LotById(e.lot_id).polygon)
                  IN /\ InUnitInterval(e.iou)
                     /\ InUnitInterval(e.coverage)
                     /\ slot_poly \cup lot_poly = {} => IsZero(e.iou)
                     /\ slot_poly = {} => IsZero(e.coverage) /\ ~e.meets_threshold
                     /\ slot_poly = {} =>
                            ~check_containment(slot_poly, lot_poly, ContainmentThreshold)
    /\ resp.op = "frame" =>
          \A i \in DOMAIN resp.detections :
              resp.detections[i].is_in_slot => InUnitInterval(resp.detections[i].iou)

\* C24: geometric degeneracy never aborts an analysis.  For any stored slot or
\* lot polygon (an empty ring, a ring with fewer than 3 points, a zero-area
\* ring) the conversion and the IoU and coverage computations raise no error,
\* so no request fails, and the values are in [0, 1], 0 for a zero union or
\* inner area.
C24_DegeneratePolygonsNeverRaise ==
    /\ resp.op # "error"
    /\ DegenerateValuesAreZero

----------------------------------------------------------------------------
(* Claims about the frame snapshots                                         *)

\* occupied, free and rate of one snapshot are consistent with the number of
\* slots of the camera whose slots were used.
ConsistentSnapshot(occupied, free, rate) ==
    /\ free = Len(parking_slots) - occupied
    /\ 0 <= occupied
    /\ occupied <= Len(parking_slots)
    /\ free >= 0
    /\ InUnitInterval(rate)
    /\ Len(parking_slots) > 0 => rate[1] * Len(parking_slots) = occupied * rate[2]

\* C25: in every frame snapshot of get_occupancy_stats, get_video_analytics
\* and get_frame_detections the free-slot count is the total minus the
\* occupied-slot count, 0 <= occupied <= total, free >= 0 and the rate is in
\* [0, 1], whatever detections the slots are combined with.
C25_SnapshotCountsConsistent ==
    /\ resp.op = "stats" =>
          \A i \in DOMAIN resp.timeline :
              /\ resp.timeline[i].total_slots = Len(parking_slots)
              /\ ConsistentSnapshot(resp.timeline[i].occupied_slots,
                                    resp.timeline[i].free_slots,
                                    resp.timeline[i].occupancy_rate)
    /\ resp.op = "analytics" =>
          \A i \in DOMAIN resp.occupancy_timeline :
              /\ resp.occupancy_timeline[i].free_slots =
                    Len(parking_slots) - resp.occupancy_timeline[i].occupied_slots
              /\ resp.occupancy_timeline[i].occupied_slots \in 0..Len(parking_slots)
              /\ InUnitInterval(resp.occupancy_timeline[i].occupancy_rate)
              /\ resp.occupancy_timeline[i].occupancy_rate[2] = 100
              /\ IsRounded(resp.occupancy_timeline[i].occupancy_rate[1],
                           resp.occupancy_timeline[i].occupied_slots,
                           Max(Len(parking_slots), 1))
    /\ (resp.op = "frame" /\ resp.total_vehicles > 0) =>
          /\ resp.occupancy.occupied_count = Cardinality(resp.occupancy.occupied_slots)
          /\ ConsistentSnapshot(resp.occupancy.occupied_count,
                                resp.occupancy.free_count,
                                resp.occupancy.occupancy_rate)

\* A snapshot with two detections on one slot: the camera has a free slot
\* left.
C25_Witness ==
    /\ resp.op = "stats"
    /\ Len(parking_slots) = 2
    /\ \E i \in DOMAIN resp.timeline :
          /\ resp.timeline[i].total_detections = 2
          /\ resp.timeline[i].occupied_slots = 1
          /\ resp.timeline[i].free_slots = 1

----------------------------------------------------------------------------
(* Claims about the run of process_video_task                               *)

\* The rows the run has created so far: the committed ones, then the pending.
CreatedRows == detections \o session

IsPrefix(p, q) == Len(p) <= Len(q) /\ SubSeq(q, 1, Len(p)) = p

\* The analysed frames whose rows the session has not committed.
UncommittedFrames == DistinctFrames(session)

\* The last frame below frame_idx at which the loop commits.
LastCommitFrame ==
    LET period == task.frame_stride * CommitInterval
    IN ((task.frame_idx - 1) \div period) * period

\* C26: while _process_video_frames runs only frames whose index is a multiple
\* of frame_stride are analysed, the detections are created in non-decreasing
\* frame_number order, and the session is committed every 100 analysed
\* frames: at any moment the detections of at most 100 analysed frames are
\* uncommitted, a crash loses only those, and what was committed stays.
C26_CommitEveryHundredFrames ==
    /\ [](task.pc \in {"frames", "finish", "done", "failed", "crashed"} =>
            /\ \A i \in DOMAIN CreatedRows :
                  CreatedRows[i].frame_number % task.frame_stride = 0
            /\ \A i, j \in DOMAIN CreatedRows :
                  i < j => CreatedRows[i].frame_number <= CreatedRows[j].frame_number
            /\ Cardinality(UncommittedFrames) <= CommitInterval
            /\ (task.pc = "frames" /\ task.frame_idx > 0) =>
                  /\ \A f \in UncommittedFrames : f > LastCommitFrame
                  /\ \A f \in 0..LastCommitFrame :
                        f % task.frame_stride = 0 =>
                            \E i \in DOMAIN detections : detections[i].frame_number = f)
    /\ [][IsPrefix(detections, detections')]_vars
    /\ [][task'.pc = "crashed" =>
              /\ detections' = detections
              /\ Cardinality(UncommittedFrames) <= CommitInterval]_vars

\* More than 100 frames were analysed and committed, and the worker died with
\* the rows of a batch pending.
C26_Witness ==
    /\ task.pc = "crashed"
    /\ Cardinality(DistinctFrames(detections)) > CommitInterval
    /\ task.frame_idx > LastCommitFrame + 1
    /\ task.frame_stride = 2

\* The rows a complete run creates: those of every analysed frame, in order.
RECURSIVE RowsUpTo(_)
RowsUpTo(n) ==
    IF n = 0 THEN <<>>
    ELSE RowsUpTo(n - 1) \o
         (IF (n - 1) % task.frame_stride = 0
          THEN FrameRows(video_file.frames[n], n - 1, task.confidence_threshold,
                         Len(video_file.frames[n]))
          ELSE <<>>)

\* C27: process_video_task records its outcome on the video and propagates
\* failures.  processing_started_at is set before any frame is read; a failed
\* task has stored processed = False, the error text and
\* processing_finished_at, has committed, and takes no further step (it does
\* not retry by itself); processed = True is stored only after all frames
\* were processed and the final commit of the detections was made.
C27_OutcomeRecordedOnVideo ==
    /\ []((task.pc \in {"load", "frames", "finish", "done", "failed"}) =>
             video.processing_started_at)
    /\ [](task.pc = "queued" => task.frame_idx = 0 /\ detections = <<>> /\ session = <<>>)
    /\ [](task.pc = "failed" =>
             /\ ~video.processed
             /\ video.processing_error # "None"
             /\ video.processing_finished_at
             /\ session = <<>>)
    /\ [](video.processed =>
             /\ task.pc = "done"
             /\ task.frame_idx = Len(video_file.frames)
             /\ session = <<>>
             /\ detections = RowsUpTo(Len(video_file.frames))
             /\ video.processing_finished_at)
    /\ [][task.pc = "failed" => task' = task]_vars
    /\ [][(video'.processed /\ ~video.processed) => task.pc = "finish"]_vars

\* The run failed after frames had been analysed.
C27_Witness ==
    /\ task.pc = "failed"
    /\ task.frame_idx > 0
    /\ detections # <<>>
    /\ video.processing_error = "error"
    /\ ~video.processed

\* C28: after any sequence of attempts of process_video_task on one video, a
\* failed attempt followed by a successful retry included, each analysed
\* frame's detections are stored once: the stored detections are those of a
\* single complete run, with no duplicate left from the failed attempt.
C28_RetryStoresEachFrameOnce ==
    task.pc = "done" =>
        /\ detections = RowsUpTo(Len(video_file.frames))
        /\ \A f \in ProcessedFrames :
              Len(RowsOfFrame(detections, f)) =
                  Len(FrameRows(video_file.frames[f + 1], f, task.confidence_threshold,
                                Len(video_file.frames[f + 1])))

\* The two parts of C29.
ProcessedHasNoError == video.processed => video.processing_error = "None"
FinishedNotInProgress ==
    (resp.op = "status" /\ resp.processing_finished_at) =>
        resp.progress_percentage # <<50>>

\* C29: in every reachable state of a video record processed = True implies
\* that processing_error is empty, and a video whose processing has finished
\* (processing_finished_at set) is never reported by
\* get_video_processing_status as in progress, also after a failed attempt
\* followed by a successful retry.
C29_VideoRecordConsistent ==
    /\ ProcessedHasNoError
    /\ FinishedNotInProgress

\* The value an optional argument stands for: the one supplied, or the
\* default when it is omitted.
Given(arg, default) == IF arg = <<>> THEN default ELSE arg[1]

\* The boxes of a known class in the analysed frames.
KnownClassBoxes ==
    UNION {{<<f, k>> : k \in {j \in DOMAIN video_file.frames[f + 1] :
                                 video_file.frames[f + 1][j].cls \in vehicle_classes}} :
           f \in ProcessedFrames}

\* C30: process_video_task uses every explicitly supplied configuration value
\* as given and falls back to the settings default only when the argument is
\* omitted; an explicit threshold of 0.0 is applied as 0.0, so with
\* confidence_threshold = 0.0 every detection of a known class is stored.
C30_ExplicitArgumentsAreUsed ==
    /\ [][(task.pc = "queued" /\ task'.pc = "load") =>
              /\ task'.frame_stride = Given(task.frame_stride, FRAME_STRIDE)
              /\ task'.iou_threshold = Given(task.iou_threshold, IOU_THRESHOLD)
              /\ task'.confidence_threshold =
                    Given(task.confidence_threshold, CONFIDENCE_THRESHOLD)]_vars
    /\ []((task.pc = "done" /\ task.confidence_threshold = 0) =>
             \A b \in KnownClassBoxes :
                 \E i \in DOMAIN detections : detections[i].id = b)

====
